---- MODULE Spec2Model ----
(***************************************************************************)
(* A model of libtremotesf's RPC engine:                                   *)
(*   - Rpc (src/rpc.cpp): the connection state machine, the poll cycle,    *)
(*     the per-request retry and session-id handling of this version;      *)
(*   - impl::RequestRouter (src/requestrouter.cpp): the stand-alone        *)
(*     transport class;                                                    *)
(*   - ItemListUpdater (src/itemlistupdater.h): the list reconciliation.   *)
(* An Rpc object and a RequestRouter object are two separate objects of    *)
(* this source tree (rpc.cpp does its own networking), so a behaviour      *)
(* follows one of them: `component` says which.                            *)
(***************************************************************************)
EXTENDS Integers, Sequences, FiniteSets, Bags, TLC

(***************************************************************************)
(* Bounds of the model.                                                    *)
(***************************************************************************)
\* Replies that may be in flight at once (size of mActiveNetworkRequests).
MaxActive == 3
\* JSON parse tasks (QFutureWatcher) that may be pending at once.
MaxParsing == 2
\* DNS lookups of checkIfServerIsLocal() that may be in flight at once.
MaxLookups == 2
\* Conflict (409) responses the daemon gives in one behaviour.
MaxConflicts == 2
\* Items of the collection ItemListUpdater::update() is applied to, and the
\* identities the incoming items are drawn from.
MaxItems == 4

(***************************************************************************)
(* Program constants.                                                      *)
(***************************************************************************)
\* rpc.cpp: constexpr int minimumRpcVersion = 14;
minimumRpcVersion == 14
\* rpc.cpp: constexpr int maxRetryAttempts = 3;
maxRetryAttempts == 3

\* Addresses a QNetworkReply can be allocated at.  The heap may hand out the
\* address of a deleted reply again; one more address than replies in flight
\* is needed because a retry posts the new reply before the old one is freed.
Addr == 1..(MaxActive + 1)

\* Session ids the daemon hands out; "" is the cleared QByteArray.
Tokens == {"A", "B"}

Min(S) == CHOOSE x \in S : \A y \in S : x <= y

SeqToSet(s) == {s[i] : i \in 1..Len(s)}

\* Op applied to value: the value is computed once, as a local variable is
With(value, Op(_)) == Op(value)

(***************************************************************************)
(* ItemBatchProcessor (itemlistupdater.h).  firstIndex/lastIndex are       *)
(* std::optional<size_t>, set and reset together: hasValue is their        *)
(* has_value().  Indices are the 0-based indices of the C++ code.          *)
(***************************************************************************)
EmptyBatch == [hasValue |-> FALSE, firstIndex |-> 0, lastIndex |-> 0]

BatchReset(index) == [hasValue |-> TRUE, firstIndex |-> index, lastIndex |-> index + 1]

\* nextIndex() that never extends the batch
BatchNextIndexSingly(b, index) ==
    IF ~b.hasValue
    THEN [batch |-> BatchReset(index), committed |-> <<>>]
    ELSE [batch |-> BatchReset(index), committed |-> <<b>>]

\* nextIndex(index): the batch after the call, and the range handed to
\* mAction by commit() (<<>> when nothing was committed).
BatchNextIndex(b, index) ==
    IF ~b.hasValue
    THEN [batch |-> BatchReset(index), committed |-> <<>>]
    ELSE IF index = b.lastIndex
         THEN [batch |-> [b EXCEPT !.lastIndex = index + 1], committed |-> <<>>]
         ELSE [batch |-> BatchReset(index), committed |-> <<b>>]

\* commitIfNeeded(): the batch after the call and the committed range.
BatchCommitIfNeeded(b) ==
    IF b.hasValue
    THEN [batch |-> EmptyBatch, committed |-> <<b>>]
    ELSE [batch |-> b, committed |-> <<>>]

(***************************************************************************)
(* ItemListUpdater::update (itemlistupdater.h), as TorrentsListUpdater     *)
(* (rpc.cpp) instantiates it.  An Item is a Torrent record, a NewItem is   *)
(* [id, changed, downloadSpeedLimited]: the id of the JSON object, whether *)
(* it differs from the Torrent in an attribute that is not modelled, and   *)
(* its "downloadLimited" value (the mapping of the other fields is outside *)
(* this model).                                                             *)
(***************************************************************************)
\* TorrentsListUpdater::findNewItemForItem: index (1-based) of the first new
\* item with the item's id, 0 for newTorrents.end().
FindNewItemForItem(newItems, item) ==
    IF \E k \in 1..Len(newItems) : newItems[k].id = item.id
    THEN Min({k \in 1..Len(newItems) : newItems[k].id = item.id})
    ELSE 0

\* Torrent::update(json): resets mFilesUpdated and mPeersUpdated and stores
\* the data.
TorrentUpdate(torrent, newItem) ==
    [torrent EXCEPT !.mFilesUpdated = "no", !.mPeersUpdated = "no",
                    !.downloadSpeedLimited = newItem.downloadSpeedLimited]

\* What Torrent::update(json) returns: whether an attribute changed
TorrentChanged(torrent, newItem) ==
    newItem.changed \/ torrent.downloadSpeedLimited # newItem.downloadSpeedLimited

\* Torrent::Torrent(id, json, rpc)
NewTorrentObject(newItem) ==
    [id |-> newItem.id,
     downloadSpeedLimited |-> newItem.downloadSpeedLimited,
     mFilesEnabled |-> FALSE, mFilesUpdated |-> "no",
     mPeersEnabled |-> FALSE, mPeersUpdated |-> "no"]

RemoveAt(s, k) == SubSeq(s, 1, k - 1) \o SubSeq(s, k + 1, Len(s))

\* items.erase(items.begin() + first, items.begin() + last)
EraseRange(items, first, last) ==
    SubSeq(items, 1, first) \o SubSeq(items, last + 1, Len(items))

Ev(name, first, last) == [ev |-> name, first |-> first, last |-> last]

\* The action of removedBatchProcessor on a committed range.
ApplyRemoved(s, committed) ==
    IF committed = <<>> THEN s
    ELSE LET b == committed[1] IN
         [s EXCEPT !.items = EraseRange(@, b.firstIndex, b.lastIndex),
                   !.events = @ \o <<Ev("onAboutToRemoveItems", b.firstIndex, b.lastIndex),
                                     Ev("onRemovedItems", b.firstIndex, b.lastIndex)>>]

\* The action of changedBatchProcessor on a committed range.
ApplyChanged(s, committed) ==
    IF committed = <<>> THEN s
    ELSE LET b == committed[1] IN
         [s EXCEPT !.events = @ \o <<Ev("onChangedItems", b.firstIndex, b.lastIndex)>>]

\* The iteration that leaves the batch of changed items open
UpdateStepRemovedKeepingChanged(s) ==
    With(BatchNextIndex(s.removedBatch, s.i), LAMBDA r :
        [ApplyRemoved([s EXCEPT !.removedBatch = r.batch], r.committed)
            EXCEPT !.i = @ + 1])

\* One iteration of the for loop of update() for an item that has no new item
UpdateStepRemoved(s) ==
    With(BatchCommitIfNeeded(s.changedBatch), LAMBDA c :
    With(ApplyChanged([s EXCEPT !.changedBatch = c.batch], c.committed), LAMBDA s1 :
    With(BatchNextIndex(s1.removedBatch, s1.i), LAMBDA r :
        [ApplyRemoved([s1 EXCEPT !.removedBatch = r.batch], r.committed)
            EXCEPT !.i = @ + 1])))

\* The iteration putting a new object in the place of the item
UpdateStepFoundReplacing(s, item, found) ==
    With(BatchCommitIfNeeded(s.removedBatch), LAMBDA r :
    With(IF r.committed = <<>> THEN 0
         ELSE r.committed[1].lastIndex - r.committed[1].firstIndex, LAMBDA size :
    With([ApplyRemoved([s EXCEPT !.removedBatch = r.batch], r.committed)
             EXCEPT !.i = @ - size, !.max = @ - size], LAMBDA s2 :
    With([s2 EXCEPT !.items[s2.i + 1] = NewTorrentObject(s2.newItems[found]),
                    !.updated = Append(@, item.id)], LAMBDA s3 :
    With(IF TorrentChanged(s2.items[s2.i + 1], s2.newItems[found])
         THEN BatchNextIndex(s3.changedBatch, s3.i)
         ELSE BatchCommitIfNeeded(s3.changedBatch), LAMBDA c :
        [ApplyChanged([s3 EXCEPT !.changedBatch = c.batch], c.committed)
            EXCEPT !.newItems = RemoveAt(@, found), !.i = @ + 1])))))

\* The iteration that leaves the new item among the new items
UpdateStepFoundKeepingNewItem(s, item, found) ==
    With(BatchCommitIfNeeded(s.removedBatch), LAMBDA r :
    With(IF r.committed = <<>> THEN 0
         ELSE r.committed[1].lastIndex - r.committed[1].firstIndex, LAMBDA size :
    With([ApplyRemoved([s EXCEPT !.removedBatch = r.batch], r.committed)
             EXCEPT !.i = @ - size, !.max = @ - size], LAMBDA s2 :
    With([s2 EXCEPT !.items[s2.i + 1] = TorrentUpdate(@, s2.newItems[found]),
                    !.updated = Append(@, item.id)], LAMBDA s3 :
    With(IF TorrentChanged(s2.items[s2.i + 1], s2.newItems[found])
         THEN BatchNextIndex(s3.changedBatch, s3.i)
         ELSE BatchCommitIfNeeded(s3.changedBatch), LAMBDA c :
        [ApplyChanged([s3 EXCEPT !.changedBatch = c.batch], c.committed)
            EXCEPT !.i = @ + 1])))))

\* items[i] with i outside the vector: the read is recorded and the scan is
\* given up.
OutOfRange(s) ==
    [s EXCEPT !.events = Append(@, Ev("#outOfRange", s.i, Len(s.items))), !.i = s.max]

\* updateItem() whose result is taken as true for every item
UpdateItemAtAlwaysChanged(s2, item, found) ==
    IF s2.i < 0 \/ s2.i >= Len(s2.items) THEN OutOfRange(s2)
    ELSE
    With([s2 EXCEPT !.items[s2.i + 1] = TorrentUpdate(@, s2.newItems[found]),
                    !.updated = Append(@, item.id)], LAMBDA s3 :
    With(BatchNextIndex(s3.changedBatch, s3.i), LAMBDA c :
        [ApplyChanged([s3 EXCEPT !.changedBatch = c.batch], c.committed)
            EXCEPT !.newItems = RemoveAt(@, found), !.i = @ + 1]))

\* updateItem(*item, *found) on items[i], the changed batch, and the new
\* item erased
UpdateItemAt(s2, item, found) ==
    IF s2.i < 0 \/ s2.i >= Len(s2.items) THEN OutOfRange(s2)
    ELSE
    With([s2 EXCEPT !.items[s2.i + 1] = TorrentUpdate(@, s2.newItems[found]),
                    !.updated = Append(@, item.id)], LAMBDA s3 :
    With(IF TorrentChanged(s2.items[s2.i + 1], s2.newItems[found])
         THEN BatchNextIndex(s3.changedBatch, s3.i)
         ELSE BatchCommitIfNeeded(s3.changedBatch), LAMBDA c :
        [ApplyChanged([s3 EXCEPT !.changedBatch = c.batch], c.committed)
            EXCEPT !.newItems = RemoveAt(@, found), !.i = @ + 1]))

\* The iteration that leaves i and max as they are after an erasure
UpdateStepFoundNotShifting(s, item, found) ==
    With(BatchCommitIfNeeded(s.removedBatch), LAMBDA r :
        UpdateItemAt(ApplyRemoved([s EXCEPT !.removedBatch = r.batch], r.committed),
                     item, found))

\* ... and for an item whose new item is newItems[found]
UpdateStepFound(s, item, found) ==
    With(BatchCommitIfNeeded(s.removedBatch), LAMBDA r :
    With(IF r.committed = <<>> THEN 0
         ELSE r.committed[1].lastIndex - r.committed[1].firstIndex, LAMBDA size :
        UpdateItemAt([ApplyRemoved([s EXCEPT !.removedBatch = r.batch], r.committed)
                         EXCEPT !.i = @ - size, !.max = @ - size],
                     item, found)))

\* One iteration of the for loop of update(), for index s.i.
UpdateStep(s) ==
    IF s.i >= Len(s.items) THEN OutOfRange(s)
    ELSE
    With(FindNewItemForItem(s.newItems, s.items[s.i + 1]), LAMBDA found :
        IF found = 0 THEN UpdateStepRemoved(s)
        ELSE UpdateStepFound(s, s.items[s.i + 1], found))

RECURSIVE UpdateLoop(_)
UpdateLoop(s) == IF s.i < s.max THEN UpdateLoop(UpdateStep(s)) ELSE s

\* ItemListUpdater::update(items, newItems): the resulting items, the
\* callbacks in call order, and the ids updateItem() was called for.
\* The end of update(): the batches are committed and the new items that
\* are left are added.
UpdateCommit(l) ==
    With(BatchCommitIfNeeded(l.removedBatch), LAMBDA r :
    With(ApplyRemoved([l EXCEPT !.removedBatch = r.batch], r.committed), LAMBDA l1 :
    With(BatchCommitIfNeeded(l1.changedBatch), LAMBDA c :
        ApplyChanged([l1 EXCEPT !.changedBatch = c.batch], c.committed))))

\* The end of update() that reports the additions whatever their number
UpdateAddUnconditionally(s1, count) ==
    [items |-> s1.items \o [k \in 1..count |-> NewTorrentObject(s1.newItems[k])],
     events |-> s1.events \o <<Ev("onAboutToAddItems", count, count),
                               Ev("onAddedItems", count, count)>>,
     updated |-> s1.updated]

UpdateAdd(s1, count) ==
    IF count > 0
    THEN [items |-> s1.items \o [k \in 1..count |-> NewTorrentObject(s1.newItems[k])],
          events |-> s1.events \o <<Ev("onAboutToAddItems", count, count),
                                    Ev("onAddedItems", count, count)>>,
          updated |-> s1.updated]
    ELSE [items |-> s1.items, events |-> s1.events, updated |-> s1.updated]

\* ItemListUpdater::update(items, newItems): the resulting items, the
\* callbacks in call order, and the ids updateItem() was called for.
ListUpdate(items, newItems) ==
    With([items |-> items, newItems |-> newItems, i |-> 0, max |-> Len(items),
          removedBatch |-> EmptyBatch, changedBatch |-> EmptyBatch,
          events |-> <<>>, updated |-> <<>>], LAMBDA s0 :
    With(IF items # <<>> THEN UpdateCommit(UpdateLoop(s0)) ELSE s0, LAMBDA s1 :
        UpdateAdd(s1, Len(s1.newItems))))

\* TorrentsListUpdater's members after update().
RangesOf(events, name) ==
    With(SelectSeq(events, LAMBDA e : e.ev = name), LAMBDA named :
        [k \in 1..Len(named) |-> <<named[k].first, named[k].last>>])

removedIndexRanges(u) == RangesOf(u.events, "onRemovedItems")
changedIndexRanges(u) == RangesOf(u.events, "onChangedItems")
addedCount(u) ==
    IF \E k \in 1..Len(u.events) : u.events[k].ev = "onAddedItems"
    THEN (CHOOSE e \in SeqToSet(u.events) : e.ev = "onAddedItems").first
    ELSE 0
getFilesIds(u) == {t.id : t \in {x \in SeqToSet(u.items) : x.mFilesEnabled /\ x.id \in SeqToSet(u.updated)}}
getPeersIds(u) == {t.id : t \in {x \in SeqToSet(u.items) : x.mPeersEnabled /\ x.id \in SeqToSet(u.updated)}}

(***************************************************************************)
(* Rpc (rpc.cpp).  The handlers are operators on a record r holding the    *)
(* fields of the Rpc object; an action applies one handler, with every     *)
(* call it makes, to the current fields.  Besides the fields, r holds      *)
(*   signals:  the Qt signals emitted by the handler so far;               *)
(*   alloc:    the addresses QNetworkAccessManager::post() will return to  *)
(*             this handler, in order;                                     *)
(*   overflow: the handler needed more than the bounds of the model allow. *)
(***************************************************************************)
Status(connectionState, error, errorMessage) ==
    [connectionState |-> connectionState, error |-> error, errorMessage |-> errorMessage]

\* Status{ConnectionState::X}: the other members keep their initializers.
StatusOf(connectionState) == Status(connectionState, "NoError", "")

Emit(r, signal) == [r EXCEPT !.signals = Append(@, signal)]

\* Rpc::Request as postRequest(method, data, callback) builds it: the session
\* id header is the current mSessionId.  ids/scheduled are the captures of the
\* getTorrentsFiles/getTorrentsPeers callbacks.  failed and timedOut are the
\* model's bookkeeping: the attempts of this request that did not end in
\* NoError (conflict responses included), and those among them that timed out
\* or were cancelled by the transport.  stale is bookkeeping too: the Rpc
\* went to Disconnected while the reply of the request was being parsed.
Request(r, method, ids, scheduled) ==
    [method |-> method, ids |-> ids, scheduled |-> scheduled,
     sessionId |-> r.mSessionId, failed |-> 0, timedOut |-> 0, stale |-> FALSE]

\* QNetworkReply* Rpc::postRequest(Request&&)
PostReply(r, request) ==
    IF r.alloc = <<>>
    THEN [r EXCEPT !.overflow = TRUE]
    ELSE [r EXCEPT !.mActiveNetworkRequests = (Head(r.alloc) :> request) @@ @,
                   !.alloc = Tail(@)]

\* void Rpc::postRequest(method, data, callOnSuccessParse)
PostRequest(r, method, ids, scheduled) == PostReply(r, Request(r, method, ids, scheduled))

MapErase(f, key) == [k \in DOMAIN f \ {key} |-> f[k]]

\* std::unordered_map::emplace: does nothing when the key is present.
MapEmplace(f, key, value) == IF key \in DOMAIN f THEN f ELSE (key :> value) @@ f

EmptyMap == [k \in {} |-> 0]

----------------------------------------------------------------------------
\* The parse tasks, which resetStateOnConnectionStateChanged leaves running,
\* marked as those of requests made before the Rpc was Disconnected
Outlived(futures) ==
    [q \in {[f EXCEPT !.stale = TRUE] : f \in BagToSet(futures)} |->
        CopiesIn(q, futures) + CopiesIn([q EXCEPT !.stale = FALSE], futures)]

\* resetStateOnConnectionStateChanged() removing the torrents whatever the
\* state was
ResetStateRemovingAlways(r, oldConnectionState) ==
    IF r.mStatus.connectionState # "Disconnected"
    THEN [rpc |-> r, removedTorrentsCount |-> 0]
    ELSE LET r1 == [r EXCEPT !.mActiveNetworkRequests = EmptyMap,
                             !.mRetryingNetworkRequests = EmptyMap,
                             !.mSessionId = "",
                             !.mUpdating = FALSE,
                             !.mServerIsLocal = "nullopt",
                             !.mPendingHostInfoLookupId = FALSE,
                             !.mServerSettingsUpdated = FALSE,
                             !.mTorrentsUpdated = FALSE,
                             !.mServerStatsUpdated = FALSE,
                             !.mUpdateTimer = FALSE,
                             !.parseFutures = Outlived(@)]
             n == Len(r.mTorrents)
         IN IF r.mTorrents # <<>>
            THEN [rpc |-> Emit([Emit(r1, <<"onAboutToRemoveTorrents", 0, n, n>>)
                                  EXCEPT !.mTorrents = <<>>],
                               <<"onRemovedTorrents", 0, n, 0>>),
                  removedTorrentsCount |-> n]
            ELSE [rpc |-> r1, removedTorrentsCount |-> 0]

\* Rpc::resetStateOnConnectionStateChanged.  reply->abort() emits finished()
\* at once; onRequestFinished finds the reply gone from mActiveNetworkRequests
\* and returns, so the aborted replies are simply dropped.
ResetStateOnConnectionStateChanged(r, oldConnectionState) ==
    IF r.mStatus.connectionState # "Disconnected"
    THEN [rpc |-> r, removedTorrentsCount |-> 0]
    ELSE LET r1 == [r EXCEPT !.mActiveNetworkRequests = EmptyMap,
                             !.mRetryingNetworkRequests = EmptyMap,
                             !.mSessionId = "",
                             !.mUpdating = FALSE,
                             !.mServerIsLocal = "nullopt",
                             !.mPendingHostInfoLookupId = FALSE,
                             !.mServerSettingsUpdated = FALSE,
                             !.mTorrentsUpdated = FALSE,
                             !.mServerStatsUpdated = FALSE,
                             !.mUpdateTimer = FALSE,
                             !.parseFutures = Outlived(@)]
             n == Len(r.mTorrents)
         IN IF r.mTorrents # <<>> /\ oldConnectionState = "Connected"
            THEN [rpc |-> Emit([Emit(r1, <<"onAboutToRemoveTorrents", 0, n, n>>)
                                  EXCEPT !.mTorrents = <<>>],
                               <<"onRemovedTorrents", 0, n, 0>>),
                  removedTorrentsCount |-> n]
            ELSE [rpc |-> r1, removedTorrentsCount |-> 0]

\* Rpc::emitSignalsOnConnectionStateChanged
EmitSignalsOnConnectionStateChanged(r, oldConnectionState, removedTorrentsCount) ==
    LET r1 == Emit(r, <<"connectionStateChanged">>)
    IN CASE r.mStatus.connectionState = "Disconnected" ->
              IF oldConnectionState = "Connected"
              THEN Emit(Emit(r1, <<"connectedChanged">>),
                        <<"torrentsUpdated", << <<0, removedTorrentsCount>> >>, <<>>, 0>>)
              ELSE r1
         [] r.mStatus.connectionState = "Connecting" -> r1
         [] r.mStatus.connectionState = "Connected" ->
              Emit(Emit(r1, <<"connectedChanged">>),
                   <<"torrentsUpdated", <<>>, <<>>, Len(r.mTorrents)>>)

\* Rpc::setStatus
\* Rpc::setStatus, from resetStateOnConnectionStateChanged on
SetStatusChanged(r2, oldStatus, connectionStateChanged) ==
    With(IF connectionStateChanged
         THEN ResetStateOnConnectionStateChanged(r2, oldStatus.connectionState)
         ELSE [rpc |-> r2, removedTorrentsCount |-> 0], LAMBDA reset :
    With(Emit(reset.rpc, <<"statusChanged">>), LAMBDA r3 :
    With(IF connectionStateChanged
         THEN EmitSignalsOnConnectionStateChanged(
                  r3, oldStatus.connectionState, reset.removedTorrentsCount)
         ELSE r3, LAMBDA r4 :
        IF r4.mStatus.error # oldStatus.error
           \/ r4.mStatus.errorMessage # oldStatus.errorMessage
        THEN Emit(r4, <<"errorChanged">>) ELSE r4)))

\* Rpc::setStatus
SetStatus(r, status) ==
    IF status = r.mStatus THEN r
    ELSE SetStatusChanged(
             [(IF status.connectionState # r.mStatus.connectionState
                  /\ r.mStatus.connectionState = "Connected"
               THEN Emit(r, <<"aboutToDisconnect">>) ELSE r) EXCEPT !.mStatus = status],
             r.mStatus,
             status.connectionState # r.mStatus.connectionState)

----------------------------------------------------------------------------
\* isUpdated() without the test of the peers
isUpdatedFilesOnly(torrent) ==
    ~(torrent.mFilesEnabled /\ torrent.mFilesUpdated = "no")

\* Torrent::isUpdated
isUpdated(torrent) ==
    /\ ~(torrent.mFilesEnabled /\ torrent.mFilesUpdated = "no")
    /\ ~(torrent.mPeersEnabled /\ torrent.mPeersUpdated = "no")

\* Rpc::maybeFinishUpdatingTorrents.  The note "#mTorrentsUpdated" records
\* that this call set the flag.
MaybeFinishUpdatingTorrents(r) ==
    IF r.mUpdating /\ ~r.mTorrentsUpdated
       /\ \A k \in 1..Len(r.mTorrents) : isUpdated(r.mTorrents[k])
    THEN Emit([r EXCEPT !.mTorrentsUpdated = TRUE], <<"#mTorrentsUpdated">>)
    ELSE r

\* checkIfUpdateCompleted() without the test of mTorrentsUpdated
checkIfUpdateCompletedWithoutTorrents(r) ==
    r.mServerSettingsUpdated /\ r.mServerStatsUpdated

\* Rpc::checkIfUpdateCompleted
checkIfUpdateCompleted(r) ==
    r.mServerSettingsUpdated /\ r.mTorrentsUpdated /\ r.mServerStatsUpdated

\* Rpc::checkIfConnectionCompleted
checkIfConnectionCompleted(r) ==
    checkIfUpdateCompleted(r) /\ r.mServerIsLocal # "nullopt"

\* The end of a cycle that starts the update timer whatever mUpdateDisabled is
FinishUpdateOrConnectionStartingTimer(r1, connecting) ==
    IF connecting /\ ~checkIfConnectionCompleted(r1) THEN r1
    ELSE [IF connecting THEN SetStatus(r1, StatusOf("Connected")) ELSE r1
             EXCEPT !.mUpdateTimer = TRUE]

\* Rpc::maybeFinishUpdateOrConnection, from "mUpdating = false" on
FinishUpdateOrConnection(r1, connecting) ==
    IF connecting /\ ~checkIfConnectionCompleted(r1) THEN r1
    ELSE With(IF connecting THEN SetStatus(r1, StatusOf("Connected")) ELSE r1, LAMBDA r2 :
             IF ~r2.mUpdateDisabled THEN [r2 EXCEPT !.mUpdateTimer = TRUE] ELSE r2)

\* Rpc::maybeFinishUpdateOrConnection
MaybeFinishUpdateOrConnection(r) ==
    IF ~r.mUpdating /\ r.mStatus.connectionState # "Connecting" THEN r
    ELSE IF r.mUpdating /\ ~checkIfUpdateCompleted(r) THEN r
    ELSE FinishUpdateOrConnection([r EXCEPT !.mUpdating = FALSE],
                                  r.mStatus.connectionState = "Connecting")

----------------------------------------------------------------------------
\* Rpc::getServerSettings, getTorrents, getServerStats, checkTorrentsSingleFile,
\* getTorrentsFiles, getTorrentsPeers: the posting half (the callbacks follow).
GetServerSettings(r) == PostRequest(r, "session-get", {}, FALSE)
GetTorrents(r) == PostRequest(r, "torrent-get", {}, FALSE)
GetServerStats(r) == PostRequest(r, "session-stats", {}, FALSE)
CheckTorrentsSingleFile(r) == PostRequest(r, "priorities", {}, FALSE)
GetTorrentsFiles(r, ids, scheduled) == PostRequest(r, "files", ids, scheduled)
GetTorrentsPeers(r, ids, scheduled) == PostRequest(r, "peers", ids, scheduled)

\* updateData() that does not test the update-in-progress flag
UpdateDataWhileUpdating(r, updateServerSettings) ==
    IF r.mStatus.connectionState # "Disconnected"
    THEN With([r EXCEPT !.mServerSettingsUpdated =
                            IF updateServerSettings THEN FALSE ELSE @,
                        !.mTorrentsUpdated = FALSE,
                        !.mServerStatsUpdated = FALSE,
                        !.mUpdateTimer = FALSE,
                        !.mUpdating = TRUE], LAMBDA r1 :
             GetServerStats(GetTorrents(
                 IF updateServerSettings THEN GetServerSettings(r1) ELSE r1)))
    ELSE r

\* updateData() that leaves the update timer as it is
UpdateDataKeepingTimer(r, updateServerSettings) ==
    IF r.mStatus.connectionState # "Disconnected" /\ ~r.mUpdating
    THEN With([r EXCEPT !.mServerSettingsUpdated =
                            IF updateServerSettings THEN FALSE ELSE @,
                        !.mTorrentsUpdated = FALSE,
                        !.mServerStatsUpdated = FALSE,
                        !.mUpdating = TRUE], LAMBDA r1 :
             GetServerStats(GetTorrents(
                 IF updateServerSettings THEN GetServerSettings(r1) ELSE r1)))
    ELSE r

\* Rpc::updateData
UpdateData(r, updateServerSettings) ==
    IF r.mStatus.connectionState # "Disconnected" /\ ~r.mUpdating
    THEN With([r EXCEPT !.mServerSettingsUpdated =
                            IF updateServerSettings THEN FALSE ELSE @,
                        !.mTorrentsUpdated = FALSE,
                        !.mServerStatsUpdated = FALSE,
                        !.mUpdateTimer = FALSE,
                        !.mUpdating = TRUE], LAMBDA r1 :
             GetServerStats(GetTorrents(
                 IF updateServerSettings THEN GetServerSettings(r1) ELSE r1)))
    ELSE r

\* connect() without the test of the server URL
ConnectWithoutUrl(r) ==
    IF r.mStatus.connectionState = "Disconnected"
    THEN GetServerSettings(SetStatus(r, StatusOf("Connecting")))
    ELSE r

\* Rpc::connect
Connect(r) ==
    IF r.mStatus.connectionState = "Disconnected" /\ r.mServerUrl # ""
    THEN GetServerSettings(SetStatus(r, StatusOf("Connecting")))
    ELSE r

\* disconnect() that leaves the auto-reconnect timer as it is
DisconnectKeepingTimer(r) ==
    SetStatus(r, StatusOf("Disconnected"))

\* Rpc::disconnect
Disconnect(r) ==
    [SetStatus(r, StatusOf("Disconnected")) EXCEPT !.mAutoReconnectTimer = FALSE]

\* Rpc::setServer
SetServer(r, autoReconnectEnabled) ==
    [Disconnect(r) EXCEPT !.mServerUrl = "url",
                          !.mAutoReconnectEnabled = autoReconnectEnabled,
                          !.mAutoReconnectTimer = FALSE]

\* Rpc::resetServer
ResetServer(r) ==
    [Disconnect(r) EXCEPT !.mServerUrl = "",
                          !.mAutoReconnectEnabled = FALSE,
                          !.mAutoReconnectTimer = FALSE]

\* Rpc::setUpdateDisabled
SetUpdateDisabled(r, disabled) ==
    IF disabled # r.mUpdateDisabled
    THEN With([r EXCEPT !.mUpdateDisabled = disabled], LAMBDA r1 :
         With(IF r1.mStatus.connectionState = "Connected"
              THEN IF disabled THEN [r1 EXCEPT !.mUpdateTimer = FALSE]
                   ELSE UpdateData(r1, TRUE)
              ELSE r1, LAMBDA r2 :
             Emit(IF disabled THEN [r2 EXCEPT !.mAutoReconnectTimer = FALSE] ELSE r2,
                  <<"updateDisabledChanged">>)))
    ELSE r

----------------------------------------------------------------------------
\* Torrent::setFilesEnabled on the torrent at position k (1-based)
SetFilesEnabled(r, k, enabled) ==
    IF enabled # r.mTorrents[k].mFilesEnabled
    THEN With([r EXCEPT !.mTorrents[k].mFilesEnabled = enabled], LAMBDA r1 :
             IF enabled THEN GetTorrentsFiles(r1, {r.mTorrents[k].id}, FALSE) ELSE r1)
    ELSE r

\* Torrent::setPeersEnabled on the torrent at position k (1-based)
SetPeersEnabled(r, k, enabled) ==
    IF enabled # r.mTorrents[k].mPeersEnabled
    THEN With([r EXCEPT !.mTorrents[k].mPeersEnabled = enabled], LAMBDA r1 :
             IF enabled THEN GetTorrentsPeers(r1, {r.mTorrents[k].id}, FALSE) ELSE r1)
    ELSE r

\* The commands that are "if (isConnected()) postRequest(...)":
\*   "torrent-start":      startTorrents and the others whose callback calls
\*                         updateData() on success (start-now, stop, remove,
\*                         verify, queue-move-*, set-location, torrent-set with
\*                         updateIfSuccessful);
\*   "torrent-reannounce": the commands without a callback that touches Rpc
\*                         (reannounce, session-set, torrent-set, free space);
\*   "torrent-rename-path": renameTorrentFile, of the torrent with id 1;
\*   "session-close":      shutdownServer.
Commands == {"torrent-start", "torrent-reannounce", "torrent-rename-path", "session-close"}

\* A command that tests for a connection being made as updateData() does
CommandWhileConnecting(r, method) ==
    IF r.mStatus.connectionState # "Disconnected"
    THEN PostRequest(r, method, IF method = "torrent-rename-path" THEN {1} ELSE {}, FALSE)
    ELSE r

\* A command that also removes the torrents from the collection
CommandRemovingTorrents(r, method) ==
    IF r.mStatus.connectionState = "Connected"
    THEN [PostRequest(r, method, IF method = "torrent-rename-path" THEN {1} ELSE {}, FALSE)
             EXCEPT !.mTorrents = <<>>]
    ELSE r

Command(r, method) ==
    IF r.mStatus.connectionState = "Connected"
    THEN PostRequest(r, method, IF method = "torrent-rename-path" THEN {1} ELSE {}, FALSE)
    ELSE r

\* Rpc::setTorrentProperty with updateIfSuccessful = false
SetTorrentProperty(r, id) ==
    IF r.mStatus.connectionState = "Connected"
    THEN PostRequest(r, "torrent-set", {id}, FALSE)
    ELSE r

\* Torrent::setDownloadSpeedLimited on the torrent at position k (1-based)
SetDownloadSpeedLimited(r, k, limited) ==
    SetTorrentProperty([r EXCEPT !.mTorrents[k].downloadSpeedLimited = limited],
                       r.mTorrents[k].id)

----------------------------------------------------------------------------
\* Rpc::checkIfServerIsLocal.  probe is what the environment answers:
\*   "file": isSessionIdFileExists() (needs a session id),
\*   "ip":   isLocalIpAddress(host) has a value,
\*   "dns":  neither, QHostInfo::lookupHost is started.
\* mPendingHostInfoLookupId is overwritten by a second lookup; the first one
\* stays in flight and is counted in untrackedLookups.
CheckIfServerIsLocal(r, probe) ==
    IF probe = "file" /\ r.mSessionId # "" THEN [r EXCEPT !.mServerIsLocal = "value"]
    ELSE IF probe = "ip" THEN [r EXCEPT !.mServerIsLocal = "value"]
    ELSE IF r.mPendingHostInfoLookupId
         THEN IF r.untrackedLookups + 2 > MaxLookups
              THEN [r EXCEPT !.overflow = TRUE]
              ELSE [r EXCEPT !.untrackedLookups = @ + 1]
         ELSE [r EXCEPT !.mPendingHostInfoLookupId = TRUE]

\* The lambda given to QHostInfo::lookupHost.  tracked: the lookup that
\* finished is the one mPendingHostInfoLookupId names.
OnHostLookupFinished(r, tracked) ==
    MaybeFinishUpdateOrConnection(
        [r EXCEPT !.mServerIsLocal = "value",
                  !.mPendingHostInfoLookupId = FALSE,
                  !.untrackedLookups =
                      IF tracked THEN @
                      ELSE IF r.mPendingHostInfoLookupId THEN @ ELSE @ - 1])

----------------------------------------------------------------------------
\* The callback of getServerSettings.  data.rpcVersion and
\* data.minimumRpcVersion are what ServerSettings::update() stores.
OnServerSettings(r, success, data) ==
    IF ~success THEN r
    ELSE With([r EXCEPT !.mServerSettings =
                            [rpcVersion |-> data.rpcVersion,
                             minimumRpcVersion |-> data.minimumRpcVersion],
                        !.mServerSettingsUpdated = TRUE], LAMBDA r1 :
             IF r1.mStatus.connectionState = "Connecting"
             THEN IF r1.mServerSettings.minimumRpcVersion > minimumRpcVersion
                  THEN SetStatus(r1, Status("Disconnected", "ServerIsTooNew", ""))
                  ELSE IF r1.mServerSettings.rpcVersion < minimumRpcVersion
                       THEN SetStatus(r1, Status("Disconnected", "ServerIsTooOld", ""))
                       ELSE CheckIfServerIsLocal(UpdateData(r1, FALSE), data.probe)
             ELSE MaybeFinishUpdateOrConnection(r1))

\* The callback of getTorrents.  data.torrents is the "torrents" array,
\* data.single says whether checkSingleFileIds came out non-empty.
\* The callback of getTorrents after TorrentsListUpdater::update
OnTorrentsUpdated(r1, updater, single) ==
    With(MaybeFinishUpdatingTorrents(r1), LAMBDA r2 :
    With(MaybeFinishUpdateOrConnection(r2), LAMBDA r3 :
    With(IF r2.mStatus.connectionState # "Connecting"
         THEN Emit(r3, <<"torrentsUpdated", removedIndexRanges(updater),
                         changedIndexRanges(updater), addedCount(updater)>>)
         ELSE r3, LAMBDA r4 :
    With(IF single THEN CheckTorrentsSingleFile(r4) ELSE r4, LAMBDA r5 :
    With(getFilesIds(updater), LAMBDA filesIds :
    With(getPeersIds(updater), LAMBDA peersIds :
    With(IF filesIds # {} THEN GetTorrentsFiles(r5, filesIds, TRUE) ELSE r5, LAMBDA r6 :
        IF peersIds # {} THEN GetTorrentsPeers(r6, peersIds, TRUE) ELSE r6)))))))

\* The callback of getTorrents.  data.torrents is the "torrents" array,
\* data.single says whether checkSingleFileIds came out non-empty.
OnTorrents(r, success, data) ==
    IF ~success THEN r
    ELSE With(ListUpdate(r.mTorrents, data.torrents), LAMBDA updater :
             OnTorrentsUpdated([r EXCEPT !.mTorrents = updater.items], updater,
                               data.single))

\* The callback of getServerStats
OnServerStats(r, success) ==
    IF ~success THEN r
    ELSE MaybeFinishUpdateOrConnection([r EXCEPT !.mServerStatsUpdated = TRUE])

\* Torrent::updateFiles / Torrent::checkThatFilesUpdated on every torrent.
\* mFilesUpdated = true is "data" when set by updateFiles and "forced" when set
\* by checkThatFilesUpdated; isUpdated() reads both as true.
UpdateFilesOf(torrents, ids) ==
    [k \in 1..Len(torrents) |->
        IF torrents[k].id \in ids /\ torrents[k].mFilesEnabled
        THEN [torrents[k] EXCEPT !.mFilesUpdated = "data"] ELSE torrents[k]]

CheckThatFilesUpdated(torrents) ==
    [k \in 1..Len(torrents) |->
        IF torrents[k].mFilesEnabled /\ torrents[k].mFilesUpdated = "no"
        THEN [torrents[k] EXCEPT !.mFilesUpdated = "forced"] ELSE torrents[k]]

UpdatePeersOf(torrents, ids) ==
    [k \in 1..Len(torrents) |->
        IF torrents[k].id \in ids /\ torrents[k].mPeersEnabled
        THEN [torrents[k] EXCEPT !.mPeersUpdated = "data"] ELSE torrents[k]]

CheckThatPeersUpdated(torrents) ==
    [k \in 1..Len(torrents) |->
        IF torrents[k].mPeersEnabled /\ torrents[k].mPeersUpdated = "no"
        THEN [torrents[k] EXCEPT !.mPeersUpdated = "forced"] ELSE torrents[k]]

\* The callback of getTorrentsFiles; data.ids are the torrents of the reply.
OnTorrentsFiles(r, request, success, data) ==
    IF ~success THEN r
    ELSE IF request.scheduled
    THEN MaybeFinishUpdateOrConnection(MaybeFinishUpdatingTorrents(
             [r EXCEPT !.mTorrents = CheckThatFilesUpdated(UpdateFilesOf(@, data.ids))]))
    ELSE [r EXCEPT !.mTorrents = UpdateFilesOf(@, data.ids)]

\* The callback of getTorrentsPeers
OnTorrentsPeers(r, request, success, data) ==
    IF ~success THEN r
    ELSE IF request.scheduled
    THEN MaybeFinishUpdateOrConnection(MaybeFinishUpdatingTorrents(
             [r EXCEPT !.mTorrents = CheckThatPeersUpdated(UpdatePeersOf(@, data.ids))]))
    ELSE [r EXCEPT !.mTorrents = UpdatePeersOf(@, data.ids)]

\* The callback of renameTorrentFile
OnTorrentFileRenamed(r, request, success) ==
    IF success /\ \E k \in 1..Len(r.mTorrents) : r.mTorrents[k].id \in request.ids
    THEN UpdateData(Emit(r, <<"torrentFileRenamed">>), TRUE)
    ELSE r

\* request.callOnSuccessParse(parseResult, success)
CallOnSuccessParse(r, request, success, data) ==
    CASE request.method = "session-get" -> OnServerSettings(r, success, data)
      [] request.method = "torrent-get" -> OnTorrents(r, success, data)
      [] request.method = "session-stats" -> OnServerStats(r, success)
      [] request.method = "files" -> OnTorrentsFiles(r, request, success, data)
      [] request.method = "peers" -> OnTorrentsPeers(r, request, success, data)
      [] request.method = "torrent-start" -> IF success THEN UpdateData(r, TRUE) ELSE r
      [] request.method = "torrent-rename-path" -> OnTorrentFileRenamed(r, request, success)
      [] request.method = "session-close" -> IF success THEN Disconnect(r) ELSE r
      [] OTHER -> r

\* The lambda connected to QFutureWatcher::finished in onRequestFinished.
\* The lambda recording a parsing error without leaving the connection state
OnParseFinishedKeepingState(r, request, parsedOk, success, data) ==
    IF r.mStatus.connectionState # "Disconnected"
    THEN IF parsedOk
         THEN CallOnSuccessParse(Emit(r, <<"#callback", request, success>>),
                                 request, success, data)
         ELSE SetStatus(r, Status(r.mStatus.connectionState, "ParseError", ""))
    ELSE r

\* The note "#callback" records that the request's callback was invoked.
OnParseFinished(r, request, parsedOk, success, data) ==
    IF r.mStatus.connectionState # "Disconnected"
    THEN IF parsedOk
         THEN CallOnSuccessParse(Emit(r, <<"#callback", request, success>>),
                                 request, success, data)
         ELSE SetStatus(r, Status("Disconnected", "ParseError", ""))
    ELSE r

----------------------------------------------------------------------------
\* The retry count mRetryingNetworkRequests holds for a reply, 0 for none
RetryCount(retrying, reply) == IF reply \in DOMAIN retrying THEN retrying[reply] ELSE 0

\* The retry that leaves the request the session id header it has
RetryRequestPostKeepingSessionId(r1, request, retryAttempts, timeout) ==
    IF r1.alloc = <<>>
    THEN [rpc |-> [r1 EXCEPT !.overflow = TRUE], retried |-> TRUE]
    ELSE [rpc |-> [PostReply(r1, [request EXCEPT !.failed = @ + 1,
                                                 !.timedOut = IF timeout THEN @ + 1 ELSE @])
                      EXCEPT !.mRetryingNetworkRequests =
                                 MapEmplace(@, Head(r1.alloc), retryAttempts)],
          retried |-> TRUE]

\* Rpc::retryRequest from postRequest on: the request is posted again
RetryRequestPost(r1, request, retryAttempts, timeout) ==
    IF r1.alloc = <<>>
    THEN [rpc |-> [r1 EXCEPT !.overflow = TRUE], retried |-> TRUE]
    ELSE [rpc |-> [PostReply(r1, [request EXCEPT !.sessionId = r1.mSessionId,
                                                 !.failed = @ + 1,
                                                 !.timedOut = IF timeout THEN @ + 1 ELSE @])
                      EXCEPT !.mRetryingNetworkRequests =
                                 MapEmplace(@, Head(r1.alloc), retryAttempts)],
          retried |-> TRUE]

\* Rpc::retryRequest: the Rpc afterwards and the returned bool.
RetryRequest(r, request, previousAttempt, timeout) ==
    With(RetryCount(r.mRetryingNetworkRequests, previousAttempt) + 1, LAMBDA retryAttempts :
    With([r EXCEPT !.mRetryingNetworkRequests = MapErase(@, previousAttempt)], LAMBDA r1 :
        IF retryAttempts > maxRetryAttempts
        THEN [rpc |-> r1, retried |-> FALSE]
        ELSE RetryRequestPost(r1, request, retryAttempts, timeout)))

\* The start of the timer without the test of mUpdateDisabled
MaybeAutoReconnectWhileDisabled(r) ==
    IF r.mAutoReconnectEnabled
    THEN [r EXCEPT !.mAutoReconnectTimer = TRUE] ELSE r

\* if (mAutoReconnectEnabled && !mUpdateDisabled) mAutoReconnectTimer->start()
MaybeAutoReconnect(r) ==
    IF r.mAutoReconnectEnabled /\ ~r.mUpdateDisabled
    THEN [r EXCEPT !.mAutoReconnectTimer = TRUE] ELSE r

\* The values of reply->error() the environment produces
\* (OperationCanceledError takes the branch of TimeoutError).
NetworkErrors ==
    {"NoError", "ContentConflictError", "AuthenticationRequiredError",
     "TimeoutError", "ConnectionRefusedError"}

\* The branch that reports TimedOut when any attempt of the request timed out
OnRequestFailedByHistory(r, r1, reply, request, error, header, timeout) ==
    With(RetryRequest(r1, request, reply, timeout), LAMBDA retry :
        IF retry.retried
        THEN Emit(retry.rpc, <<"#retry", request, error, header,
                               RetryCount(r.mRetryingNetworkRequests, reply),
                               IF r1.alloc = <<>> THEN 0
                               ELSE RetryCount(retry.rpc.mRetryingNetworkRequests,
                                               Head(r1.alloc))>>)
        ELSE Emit(MaybeAutoReconnect(SetStatus(retry.rpc,
                      Status("Disconnected",
                             IF timeout \/ request.timedOut > 0
                             THEN "TimedOut" ELSE "ConnectionError",
                             error))),
                  <<"#failed", request, error, header>>))

\* Rpc::onRequestFinished, the default: branch of the switch
OnRequestFailed(r, r1, reply, request, error, header, timeout) ==
    With(RetryRequest(r1, request, reply, timeout), LAMBDA retry :
        IF retry.retried
        THEN Emit(retry.rpc, <<"#retry", request, error, header,
                               RetryCount(r.mRetryingNetworkRequests, reply),
                               IF r1.alloc = <<>> THEN 0
                               ELSE RetryCount(retry.rpc.mRetryingNetworkRequests,
                                               Head(r1.alloc))>>)
        ELSE Emit(MaybeAutoReconnect(SetStatus(retry.rpc,
                      Status("Disconnected",
                             IF timeout THEN "TimedOut" ELSE "ConnectionError",
                             error))),
                  <<"#failed", request, error, header>>))

\* Rpc::onRequestFinished, the session id of the reply being a new one
OnSessionIdChanged(r, r1, reply, request, header) ==
    With(PostReply([r1 EXCEPT !.mSessionId = header],
                   [request EXCEPT !.sessionId = header, !.failed = @ + 1]), LAMBDA r2 :
        Emit(r2, <<"#resubmit", request, header,
                   RetryCount(r.mRetryingNetworkRequests, reply),
                   IF r1.alloc = <<>> THEN 0
                   ELSE RetryCount(r2.mRetryingNetworkRequests, Head(r1.alloc))>>))

\* The test of a new session id without the comparison with the request's own
SessionIdChangedWhateverTheRequests(request, error, header) ==
    error = "ContentConflictError" /\ header # ""

\* Rpc::onRequestFinished: the reply is a conflict that has the session id
\* header, and the header is not the one the request carried
SessionIdChanged(request, error, header) ==
    /\ error = "ContentConflictError" /\ header # ""
    /\ header # request.sessionId

\* Rpc::onRequestFinished with the reply taken out of mActiveNetworkRequests
OnActiveRequestFinished(r, r1, reply, request, error, header) ==
    IF r1.mStatus.connectionState = "Disconnected" THEN r1
    ELSE IF error = "NoError"
    THEN Emit([r1 EXCEPT !.mRetryingNetworkRequests = MapErase(@, reply),
                         !.parseFutures = @ (+) SetToBag({request})],
              <<"#parse", request>>)
    ELSE IF SessionIdChanged(request, error, header)
    THEN OnSessionIdChanged(r, r1, reply, request, header)
    ELSE IF error = "AuthenticationRequiredError"
    THEN Emit(SetStatus(r1, Status("Disconnected", "AuthenticationError", error)),
              <<"#failed", request, error, header>>)
    ELSE OnRequestFailed(r, r1, reply, request, error, header,
                         error \in {"OperationCanceledError", "TimeoutError"})

\* Rpc::onRequestFinished.  error is reply->error(), header is the reply's
\* X-Transmission-Session-Id header ("" when it has none).  The notes
\* "#parse", "#resubmit", "#retry" and "#failed" record what was done with
\* the finished attempt: the request, the error and the header of the reply;
\* "#resubmit" and "#retry" also say which retry count the map held for the
\* finished reply and holds for the new one.
OnRequestFinished(r, reply, error, header) ==
    IF reply \notin DOMAIN r.mActiveNetworkRequests THEN r
    ELSE OnActiveRequestFinished(
             r, [r EXCEPT !.mActiveNetworkRequests = MapErase(@, reply)],
             reply, r.mActiveNetworkRequests[reply], error, header)

(***************************************************************************)
(* RequestRouter (requestrouter.cpp).  The handlers are operators on a      *)
(* record q of the RequestRouter's fields, with signals, alloc and          *)
(* overflow as above.  cancelledFutures counts the parse watchers that      *)
(* cancelPendingRequestsAndClearSessionId() cancelled and whose finished()  *)
(* may still be delivered.                                                  *)
(***************************************************************************)
\* retryAttempts{2} of RequestsConfiguration
defaultRetryAttempts == 2

\* RequestRouter::Request::setSessionId: the header is set only when the
\* session id is not empty; otherwise the request keeps the header it has.
RouterSetSessionId(request, sessionId) ==
    IF sessionId # "" THEN [request EXCEPT !.sessionId = sessionId] ELSE request

\* QNetworkReply* RequestRouter::postRequest(Request&&)
RouterPostReply(q, request) ==
    IF q.alloc = <<>>
    THEN [q EXCEPT !.overflow = TRUE]
    ELSE [q EXCEPT !.mPendingNetworkRequests = (Head(q.alloc) :> request) @@ @,
                   !.alloc = Tail(@)]

\* void RequestRouter::postRequest(method, data, onResponse)
RouterPostRequest(q, method) ==
    RouterPostReply(q, RouterSetSessionId(
        [method |-> method, ids |-> {}, scheduled |-> FALSE, sessionId |-> "",
         failed |-> 0, timedOut |-> 0, stale |-> FALSE],
        q.mSessionId))

\* RequestRouter::setConfiguration
SetConfiguration(q, retryAttempts) == [q EXCEPT !.retryAttempts = retryAttempts]

\* RequestRouter::cancelPendingRequestsAndClearSessionId.  reply->abort()
\* emits finished() at once and onRequestFinished returns at its first test,
\* mPendingNetworkRequests having been moved from.
CancelPendingRequestsAndClearSessionId(q) ==
    [q EXCEPT !.mPendingNetworkRequests = EmptyMap,
              !.cancelledFutures = @ + BagCardinality(q.mPendingParseFutures),
              !.mPendingParseFutures = EmptyBag,
              !.mSessionId = ""]

\* RequestRouter::retryRequest from postRequest on
RouterRetryRequestPost(q1, request, retryAttempts, timeout) ==
    IF q1.alloc = <<>>
    THEN [router |-> [q1 EXCEPT !.overflow = TRUE], retried |-> TRUE]
    ELSE [router |-> [RouterPostReply(q1, [RouterSetSessionId(request, q1.mSessionId)
                                              EXCEPT !.failed = @ + 1,
                                                     !.timedOut = IF timeout THEN @ + 1
                                                                  ELSE @])
                         EXCEPT !.mRetryingNetworkRequests =
                                     MapEmplace(@, Head(q1.alloc), retryAttempts)],
          retried |-> TRUE]

\* RequestRouter::retryRequest: the router afterwards and the returned bool.
RouterRetryRequest(q, request, previousAttempt, timeout) ==
    With(RetryCount(q.mRetryingNetworkRequests, previousAttempt) + 1, LAMBDA retryAttempts :
    With([q EXCEPT !.mRetryingNetworkRequests = MapErase(@, previousAttempt)], LAMBDA q1 :
        IF retryAttempts > q1.retryAttempts
        THEN [router |-> q1, retried |-> FALSE]
        ELSE RouterRetryRequestPost(q1, request, retryAttempts, timeout)))

\* RequestRouter::onRequestSuccess
OnRequestSuccess(q, reply, request) ==
    Emit([q EXCEPT !.mRetryingNetworkRequests = MapErase(@, reply),
                   !.mPendingParseFutures = @ (+) SetToBag({request})],
         <<"#parse", request>>)

\* RequestRouter::onRequestError, the default: branch of the switch
OnRequestErrorRetry(q, reply, request, error, header, timeout) ==
    With(RouterRetryRequest(q, request, reply, timeout), LAMBDA retry :
        IF retry.retried
        THEN Emit(retry.router, <<"#retry", request, error, header,
                                  RetryCount(q.mRetryingNetworkRequests, reply),
                                  IF q.alloc = <<>> THEN 0
                                  ELSE RetryCount(retry.router.mRetryingNetworkRequests,
                                                  Head(q.alloc))>>)
        ELSE Emit(Emit(retry.router,
                       <<"requestFailed",
                         IF timeout THEN "TimedOut" ELSE "ConnectionError", error>>),
                  <<"#failed", request, error, header>>))

\* RequestRouter::onRequestError, the session id of the reply being a new one
OnRequestErrorSessionId(q, reply, request, header) ==
    With(RouterPostReply([q EXCEPT !.mSessionId = header],
                         [RouterSetSessionId(request, header) EXCEPT !.failed = @ + 1]),
         LAMBDA q2 :
        Emit(q2, <<"#resubmit", request, header,
                   RetryCount(q.mRetryingNetworkRequests, reply),
                   IF q.alloc = <<>> THEN 0
                   ELSE RetryCount(q2.mRetryingNetworkRequests, Head(q.alloc))>>))

\* RequestRouter::onRequestError: the same test of the reply
RouterSessionIdChanged(request, error, header) ==
    /\ error = "ContentConflictError" /\ header # ""
    /\ header # request.sessionId

\* onRequestError() without the case of AuthenticationRequiredError
OnRequestErrorRetryingAll(q, reply, request, error, header) ==
    IF RouterSessionIdChanged(request, error, header)
    THEN OnRequestErrorSessionId(q, reply, request, header)
    ELSE OnRequestErrorRetry(q, reply, request, error, header,
                             error \in {"OperationCanceledError", "TimeoutError"})

\* RequestRouter::onRequestError
OnRequestError(q, reply, request, error, header) ==
    IF RouterSessionIdChanged(request, error, header)
    THEN OnRequestErrorSessionId(q, reply, request, header)
    ELSE IF error = "AuthenticationRequiredError"
    THEN Emit(Emit(q, <<"requestFailed", "AuthenticationError", error>>),
              <<"#failed", request, error, header>>)
    ELSE OnRequestErrorRetry(q, reply, request, error, header,
                             error \in {"OperationCanceledError", "TimeoutError"})

\* RequestRouter::onRequestFinished
RouterOnRequestFinished(q, reply, error, header) ==
    IF reply \notin DOMAIN q.mPendingNetworkRequests THEN q
    ELSE IF error = "NoError"
    THEN OnRequestSuccess([q EXCEPT !.mPendingNetworkRequests = MapErase(@, reply)],
                          reply, q.mPendingNetworkRequests[reply])
    ELSE OnRequestError([q EXCEPT !.mPendingNetworkRequests = MapErase(@, reply)],
                        reply, q.mPendingNetworkRequests[reply], error, header)

\* The lambda connected to ParseFutureWatcher::finished in onRequestSuccess,
\* for a watcher that is in mPendingParseFutures.  hasValue: the body was
\* valid JSON.
RouterOnParseFinished(q, request, hasValue, success) ==
    IF hasValue
    THEN Emit([q EXCEPT !.mPendingParseFutures = @ (-) SetToBag({request})],
              <<"#callback", request, success>>)
    ELSE Emit([q EXCEPT !.mPendingParseFutures = @ (-) SetToBag({request})],
              <<"requestFailed", "ParseError", "">>)

\* The lambda without the test of mPendingParseFutures.erase(watcher)
RouterOnCancelledParseFinishedUntested(q) ==
    Emit([q EXCEPT !.cancelledFutures = @ - 1], <<"requestFailed", "ParseError", "">>)

\* The same lambda for a cancelled watcher: erase() finds nothing.
RouterOnCancelledParseFinished(q) == [q EXCEPT !.cancelledFutures = @ - 1]

(***************************************************************************)
(* The state.  component says which class the run is about: an Rpc with    *)
(* its own transport (rpc.cpp) or a RequestRouter driven by its caller.    *)
(* mSessionId and mRetryingNetworkRequests are members of both classes.    *)
(***************************************************************************)
VARIABLES
    component,
    \* Rpc
    mStatus, mServerUrl, mUpdateDisabled, mUpdating, mAutoReconnectEnabled,
    mServerIsLocal, mPendingHostInfoLookupId,
    mServerSettingsUpdated, mTorrentsUpdated, mServerStatsUpdated,
    mServerSettings,    \* rpcVersion and minimumRpcVersion of the ServerSettings
    mUpdateTimer, mAutoReconnectTimer, mTorrents,
    mActiveNetworkRequests,
    parseFutures,       \* the requests whose reply is being parsed (QFutureWatcher)
    untrackedLookups,   \* host lookups in flight that mPendingHostInfoLookupId lost
    \* both
    mSessionId, mRetryingNetworkRequests,
    \* RequestRouter
    retryAttempts,      \* mConfiguration.retryAttempts
    mPendingNetworkRequests, mPendingParseFutures, cancelledFutures,
    \* ItemListUpdater
    items,              \* the collection update() is applied to
    newItems,           \* the incoming collection of the next update()
    events,             \* the callbacks of the last update(), in call order
    updated,            \* the identities updateItem() was called for, in call order
    \* bookkeeping of the model
    signals,            \* what the last step emitted
    scenario,           \* the end-to-end connect being followed, if any
    cycleFailed,        \* a fetch of the current poll cycle was answered with a failure
    budget              \* what the user and the daemon may still do, by kind

rpcVars ==
    <<mStatus, mServerUrl, mUpdateDisabled, mUpdating, mAutoReconnectEnabled,
      mServerIsLocal, mPendingHostInfoLookupId,
      mServerSettingsUpdated, mTorrentsUpdated, mServerStatsUpdated, mServerSettings,
      mUpdateTimer, mAutoReconnectTimer, mTorrents,
      mActiveNetworkRequests, parseFutures, untrackedLookups>>

sharedVars == <<mSessionId, mRetryingNetworkRequests>>

routerVars ==
    <<retryAttempts, mPendingNetworkRequests, mPendingParseFutures, cancelledFutures>>

updaterVars == <<items, newItems, events, updated>>

vars ==
    <<component, rpcVars, sharedVars, routerVars, updaterVars,
      signals, scenario, cycleFailed, budget>>

(***************************************************************************)
(* The environment.  A behaviour is bounded by a budget: how many calls of *)
(* each kind the user still makes and how many failures of each kind the   *)
(* daemon and the network still produce.  Init draws the budget from       *)
(* Budgets, so that each kind of run is explored to the depth it needs.    *)
(***************************************************************************)
Kinds ==
    {"setServer", "autoReconnect", "resetServer", "connect", "disconnect",
     "setUpdateDisabled", "updateData", "command", "setFilesEnabled",
     "setPeersEnabled", "setDownloadSpeedLimited", "limited", "updateTimer",
     "postRequest", "cancel", "setConfiguration",
     "timeout", "error", "conflict", "auth", "parse", "protocol", "version", "dns",
     "torrents", "single"}

Budget(given) == [k \in Kinds |-> IF k \in DOMAIN given THEN given[k] ELSE 0]

RpcBudgets ==
    {\* connecting, disconnecting and connecting again
     Budget([setServer |-> 1, connect |-> 2, disconnect |-> 1, setFilesEnabled |-> 1,
             torrents |-> 1]),
     \* a second update while the server's address is being resolved
     Budget([setServer |-> 1, connect |-> 1, disconnect |-> 1, updateData |-> 1,
             dns |-> MaxLookups]),
     \* polling with files and peers of a torrent enabled
     Budget([setServer |-> 1, connect |-> 1, setFilesEnabled |-> 1,
             setPeersEnabled |-> 1, updateTimer |-> 1, torrents |-> 1]),
     \* timeouts up to a request's last retry, after a new session id
     Budget([setServer |-> 1, autoReconnect |-> 1, connect |-> 1,
             timeout |-> maxRetryAttempts + 1, conflict |-> 1]),
     \* session id conflicts after a retry
     Budget([setServer |-> 1, connect |-> 1, timeout |-> 1, conflict |-> MaxConflicts]),
     \* the failures that are not retried
     Budget([setServer |-> 1, connect |-> 1, error |-> 1, auth |-> 1, parse |-> 1,
             protocol |-> 1, version |-> 1, updateTimer |-> 1, torrents |-> 1]),
     \* the other calls
     Budget([setServer |-> 1, resetServer |-> 1, connect |-> 1, disconnect |-> 1,
             setUpdateDisabled |-> 2, command |-> 1, updateTimer |-> 1,
             torrents |-> 1, single |-> 1]),
     \* the calls that stop an automatic reconnection
     Budget([setServer |-> 2, autoReconnect |-> 1, resetServer |-> 1, connect |-> 1,
             disconnect |-> 1, setUpdateDisabled |-> 1,
             timeout |-> maxRetryAttempts + 1]),
     \* a property of a torrent set by the user and by the daemon
     Budget([setServer |-> 1, connect |-> 1, disconnect |-> 1,
             setDownloadSpeedLimited |-> 1, limited |-> 1, updateTimer |-> 1,
             torrents |-> 1]),
     \* the failures that are not retried, with auto-reconnect enabled, after
     \* a request was given up
     Budget([setServer |-> 1, autoReconnect |-> 1, connect |-> 2,
             timeout |-> maxRetryAttempts + 1, auth |-> 1, parse |-> 1,
             version |-> 1])}

RouterBudgets ==
    {\* timeouts up to a request's last retry, around a cancellation
     Budget([postRequest |-> 2, cancel |-> 1, timeout |-> defaultRetryAttempts + 1]),
     \* session id conflicts and a change of the configuration
     Budget([postRequest |-> 1, setConfiguration |-> 1, timeout |-> 2,
             conflict |-> MaxConflicts]),
     \* the failures that are not retried
     Budget([postRequest |-> 2, cancel |-> 1, error |-> 1, auth |-> 1, parse |-> 1,
             protocol |-> 1, timeout |-> 1]),
     \* requests posted together whose conflict responses arrive out of order
     Budget([postRequest |-> 3, conflict |-> 3])}

\* The kind of failure a reply's error is, "none" for NoError
FailureKind(error) ==
    CASE error = "NoError" -> "none"
      [] error = "TimeoutError" -> "timeout"
      [] error = "ContentConflictError" -> "conflict"
      [] error = "AuthenticationRequiredError" -> "auth"
      [] OTHER -> "error"

Spend(kind, used) ==
    /\ kind # "none" => budget[kind] > 0
    /\ budget' = IF kind # "none" /\ used THEN [budget EXCEPT ![kind] = @ - 1] ELSE budget

\* The addresses post() may return: any address no live reply occupies.  An
\* address that is still a key of mRetryingNetworkRequests may be reused; the
\* other addresses are interchangeable, so the least one is taken.
RECURSIVE AllocationsFrom(_, _, _)
AllocationsFrom(fresh, stale, n) ==
    IF n = 0 THEN {<<>>}
    ELSE (IF fresh = {} THEN {}
          ELSE {<<Min(fresh)>> \o s : s \in AllocationsFrom(fresh \ {Min(fresh)}, stale, n - 1)})
         \cup UNION {{<<a>> \o s : s \in AllocationsFrom(fresh, stale \ {a}, n - 1)} :
                        a \in stale}

Allocations(live) ==
    AllocationsFrom((Addr \ live) \ DOMAIN mRetryingNetworkRequests,
                    (Addr \ live) \cap DOMAIN mRetryingNetworkRequests,
                    Min({Cardinality(Addr \ live), MaxActive}))

\* Addresses are interchangeable: after each step the replies are renamed so
\* that the live ones come first, in the order of what they carry, and the
\* dangling keys of mRetryingNetworkRequests follow in the order of their
\* counts.  Code is only used to fix that order.
MethodCode(method) ==
    CASE method = "session-get" -> 1 [] method = "torrent-get" -> 2
      [] method = "session-stats" -> 3 [] method = "priorities" -> 4
      [] method = "files" -> 5 [] method = "peers" -> 6
      [] method = "torrent-start" -> 7 [] method = "torrent-reannounce" -> 8
      [] method = "torrent-rename-path" -> 9 [] method = "torrent-set" -> 10
      [] OTHER -> 11

RequestCode(q) ==
    (((((MethodCode(q.method) * 4
         + (IF 1 \in q.ids THEN 1 ELSE 0) + (IF 2 \in q.ids THEN 2 ELSE 0)) * 2
        + (IF q.scheduled THEN 1 ELSE 0)) * 3
       + (CASE q.sessionId = "" -> 0 [] q.sessionId = "A" -> 1 [] OTHER -> 2)) * 16
      + q.failed) * 16 + q.timedOut) * 8

Code(live, retrying, a) ==
    IF a \in DOMAIN live
    THEN RequestCode(live[a]) + RetryCount(retrying, a)
    ELSE 10000000 + RetryCount(retrying, a)

Renaming(live, retrying) ==
    With([a \in DOMAIN live \cup DOMAIN retrying |-> Code(live, retrying, a)], LAMBDA code :
        [a \in DOMAIN code |->
            Cardinality({b \in DOMAIN code :
                code[b] < code[a] \/ (code[b] = code[a] /\ b <= a)})])

Renamed(f, renaming) ==
    [n \in {renaming[a] : a \in DOMAIN f} |->
        f[CHOOSE a \in DOMAIN f : renaming[a] = n]]

\* The Rpc object as the handlers take it
Cur(alloc) ==
    [mStatus |-> mStatus, mServerUrl |-> mServerUrl,
     mUpdateDisabled |-> mUpdateDisabled, mUpdating |-> mUpdating,
     mAutoReconnectEnabled |-> mAutoReconnectEnabled,
     mServerIsLocal |-> mServerIsLocal,
     mPendingHostInfoLookupId |-> mPendingHostInfoLookupId,
     mServerSettingsUpdated |-> mServerSettingsUpdated,
     mTorrentsUpdated |-> mTorrentsUpdated,
     mServerStatsUpdated |-> mServerStatsUpdated,
     mServerSettings |-> mServerSettings,
     mUpdateTimer |-> mUpdateTimer, mAutoReconnectTimer |-> mAutoReconnectTimer,
     mTorrents |-> mTorrents, mSessionId |-> mSessionId,
     mActiveNetworkRequests |-> mActiveNetworkRequests,
     mRetryingNetworkRequests |-> mRetryingNetworkRequests,
     parseFutures |-> parseFutures, untrackedLookups |-> untrackedLookups,
     signals |-> <<>>, alloc |-> alloc, overflow |-> FALSE]

ScenarioOff == [on |-> FALSE, delivered |-> {}, log |-> <<>>]

\* The notifications an end-to-end scenario keeps
Logged(emitted) ==
    SelectSeq(emitted, LAMBDA e : e[1] \in {"connectedChanged", "torrentsUpdated"})

CycleMethods == {"session-get", "torrent-get", "session-stats"}

\* The Rpc object after a handler: r becomes the state.
Becomes(r, newScenario, protocolFailure) ==
    /\ ~r.overflow
    /\ Cardinality(DOMAIN r.mActiveNetworkRequests) <= MaxActive
    /\ BagCardinality(r.parseFutures) <= MaxParsing
    /\ mStatus' = r.mStatus
    /\ mServerUrl' = r.mServerUrl
    /\ mUpdateDisabled' = r.mUpdateDisabled
    /\ mUpdating' = r.mUpdating
    /\ mAutoReconnectEnabled' = r.mAutoReconnectEnabled
    /\ mServerIsLocal' = r.mServerIsLocal
    /\ mPendingHostInfoLookupId' = r.mPendingHostInfoLookupId
    /\ mServerSettingsUpdated' = r.mServerSettingsUpdated
    /\ mTorrentsUpdated' = r.mTorrentsUpdated
    /\ mServerStatsUpdated' = r.mServerStatsUpdated
    /\ mServerSettings' = r.mServerSettings
    /\ mUpdateTimer' = r.mUpdateTimer
    /\ mAutoReconnectTimer' = r.mAutoReconnectTimer
    /\ mTorrents' = r.mTorrents
    /\ mSessionId' = r.mSessionId
    /\ \E renaming \in {Renaming(r.mActiveNetworkRequests, r.mRetryingNetworkRequests)} :
          /\ mActiveNetworkRequests' = Renamed(r.mActiveNetworkRequests, renaming)
          /\ mRetryingNetworkRequests' = Renamed(r.mRetryingNetworkRequests, renaming)
    /\ parseFutures' = r.parseFutures
    /\ untrackedLookups' = r.untrackedLookups
    /\ signals' = r.signals
    /\ scenario' = IF newScenario.on
                   THEN [newScenario EXCEPT !.log = @ \o Logged(r.signals)]
                   ELSE ScenarioOff
    /\ cycleFailed' = IF ~r.mUpdating \/ ~mUpdating THEN FALSE
                      ELSE cycleFailed \/ protocolFailure
    /\ UNCHANGED <<component, routerVars, updaterVars>>

\* r is the Rpc object it was before the handler
Untouched(r) == [r EXCEPT !.signals = <<>>, !.alloc = <<>>] = Cur(<<>>)

\* A call of the given kind made by the user of the Rpc object.  A call that
\* changes nothing is no step of the model.
Called(kind, after, newScenario) ==
    \E r \in {after} :
        /\ component = "Rpc"
        /\ ~Untouched(r)
        /\ Spend(kind, TRUE)
        /\ Becomes(r, newScenario, FALSE)

\* An event delivered by the event loop, carrying a failure of the given kind
Delivered(kind, after, newScenario, protocolFailure) ==
    /\ component = "Rpc"
    /\ Spend(kind, TRUE)
    /\ \E r \in {after} : Becomes(r, newScenario, protocolFailure)

----------------------------------------------------------------------------
\* What the environment can make of a reply being parsed: the body is not
\* JSON; the daemon's result is not "success"; or a successful result with
\* its arguments.  While Disconnected the outcome is discarded unread.
\* The torrents come in the order of their ids, changed or unchanged together;
\* the budget says whether the daemon has torrents at all.
NewTorrents ==
    {<<>>} \cup
    {[k \in 1..Len(ids) |-> [id |-> ids[k], changed |-> c,
                              downloadSpeedLimited |-> FALSE]] :
        ids \in {<<1>>, <<2>>, <<1, 2>>}, c \in BOOLEAN}

\* The same lists, of torrents whose download speed is limited
LimitedTorrents ==
    {[k \in DOMAIN t |-> [t[k] EXCEPT !.downloadSpeedLimited = TRUE]] :
        t \in NewTorrents \ {<<>>}}

NoData ==
    [rpcVersion |-> minimumRpcVersion, minimumRpcVersion |-> minimumRpcVersion,
     probe |-> "ip", torrents |-> <<>>, single |-> FALSE, ids |-> {}]

Supported(data) ==
    data.minimumRpcVersion <= minimumRpcVersion /\ data.rpcVersion >= minimumRpcVersion

Arguments(request) ==
    CASE request.method = "session-get" ->
             {[NoData EXCEPT !.rpcVersion = v, !.minimumRpcVersion = m, !.probe = p] :
                 v \in {minimumRpcVersion - 1, minimumRpcVersion},
                 m \in {minimumRpcVersion, minimumRpcVersion + 1},
                 p \in {"file", "ip", "dns"}}
      [] request.method = "torrent-get" ->
             {[NoData EXCEPT !.torrents = t, !.single = c] :
                 t \in IF budget["torrents"] > 0
                       THEN NewTorrents \cup
                            (IF budget["limited"] > 0 THEN LimitedTorrents ELSE {})
                       ELSE {<<>>},
                 c \in IF budget["single"] > 0 THEN BOOLEAN ELSE {FALSE}}
      [] request.method \in {"files", "peers"} ->
             {[NoData EXCEPT !.ids = i] : i \in SUBSET request.ids}
      [] OTHER -> {NoData}

ParseOutcomes(request) ==
    IF mStatus.connectionState = "Disconnected"
    THEN {[parsedOk |-> TRUE, success |-> TRUE, data |-> NoData]}
    ELSE {[parsedOk |-> FALSE, success |-> FALSE, data |-> NoData],
          [parsedOk |-> TRUE, success |-> FALSE, data |-> NoData]}
         \cup {[parsedOk |-> TRUE, success |-> TRUE, data |-> d] : d \in Arguments(request)}

\* The kind of budget an outcome takes
OutcomeKind(request, outcome) ==
    CASE ~outcome.parsedOk -> "parse"
      [] outcome.parsedOk /\ ~outcome.success -> "protocol"
      [] OTHER ->
           IF request.method = "session-get"
           THEN IF ~Supported(outcome.data) THEN "version"
                ELSE IF mStatus.connectionState = "Connecting" /\ outcome.data.probe = "dns"
                     THEN "dns" ELSE "none"
           ELSE "none"

\* The steps of the end-to-end connect: the three responses arrive and are
\* parsed, the daemon's version is supported and it has 2 torrents.
ScenarioStart ==
    IF /\ mStatus.connectionState = "Disconnected" /\ mServerUrl # ""
       /\ ~mUpdateDisabled
       /\ parseFutures = EmptyBag /\ untrackedLookups = 0
       /\ mActiveNetworkRequests = EmptyMap
    THEN [on |-> TRUE, delivered |-> {}, log |-> <<>>]
    ELSE ScenarioOff

ScenarioReply(request, error) ==
    IF scenario.on /\ error = "NoError" /\ request.method \in CycleMethods
    THEN scenario ELSE ScenarioOff

ScenarioParsed(request, outcome) ==
    IF /\ scenario.on /\ outcome.parsedOk /\ outcome.success
       /\ request.method \in CycleMethods
       /\ request.method = "session-get" => Supported(outcome.data)
       /\ request.method = "torrent-get" => Len(outcome.data.torrents) = 2
    THEN [scenario EXCEPT !.delivered = @ \cup {request.method}]
    ELSE ScenarioOff

----------------------------------------------------------------------------
\* The calls of the user
SetServerCall ==
    \E autoReconnectEnabled \in BOOLEAN :
        /\ autoReconnectEnabled => budget["autoReconnect"] > 0
        /\ Called("setServer", SetServer(Cur(<<>>), autoReconnectEnabled), ScenarioOff)

ResetServerCall ==
    \E alloc \in {<<>>} : Called("resetServer", ResetServer(Cur(alloc)), ScenarioOff)

ConnectCall ==
    \E alloc \in Allocations(DOMAIN mActiveNetworkRequests) :
        Called("connect", Connect(Cur(alloc)), ScenarioStart)

DisconnectCall ==
    \E alloc \in {<<>>} : Called("disconnect", Disconnect(Cur(alloc)), ScenarioOff)

SetUpdateDisabledCall ==
    \E disabled \in BOOLEAN, alloc \in Allocations(DOMAIN mActiveNetworkRequests) :
        Called("setUpdateDisabled", SetUpdateDisabled(Cur(alloc), disabled), ScenarioOff)

UpdateDataCall ==
    \E alloc \in Allocations(DOMAIN mActiveNetworkRequests) :
        Called("updateData", UpdateData(Cur(alloc), TRUE), ScenarioOff)

CommandCall ==
    \E method \in Commands, alloc \in Allocations(DOMAIN mActiveNetworkRequests) :
        Called("command", Command(Cur(alloc), method), ScenarioOff)

SetFilesEnabledCall ==
    \E k \in 1..Len(mTorrents), enabled \in BOOLEAN,
       alloc \in Allocations(DOMAIN mActiveNetworkRequests) :
        Called("setFilesEnabled", SetFilesEnabled(Cur(alloc), k, enabled), ScenarioOff)

SetDownloadSpeedLimitedCall ==
    \E k \in 1..Len(mTorrents), limited \in BOOLEAN,
       alloc \in Allocations(DOMAIN mActiveNetworkRequests) :
        Called("setDownloadSpeedLimited",
               SetDownloadSpeedLimited(Cur(alloc), k, limited), ScenarioOff)

SetPeersEnabledCall ==
    \E k \in 1..Len(mTorrents), enabled \in BOOLEAN,
       alloc \in Allocations(DOMAIN mActiveNetworkRequests) :
        Called("setPeersEnabled", SetPeersEnabled(Cur(alloc), k, enabled), ScenarioOff)

\* QTimer::timeout of the single-shot timers
UpdateTimerTimeout ==
    /\ mUpdateTimer
    /\ \E alloc \in Allocations(DOMAIN mActiveNetworkRequests) :
          Delivered("updateTimer",
                    UpdateData([Cur(alloc) EXCEPT !.mUpdateTimer = FALSE], TRUE),
                    ScenarioOff, FALSE)

AutoReconnectTimerTimeout ==
    /\ mAutoReconnectTimer
    /\ \E alloc \in Allocations(DOMAIN mActiveNetworkRequests) :
          Delivered("none", Connect([Cur(alloc) EXCEPT !.mAutoReconnectTimer = FALSE]),
                    ScenarioOff, FALSE)

\* QNetworkReply::finished.  While Disconnected the reply is dropped unread.
ReplyFinished ==
    \E reply \in DOMAIN mActiveNetworkRequests,
       error \in IF mStatus.connectionState = "Disconnected"
                 THEN {"NoError"} ELSE NetworkErrors :
      \E header \in IF error = "ContentConflictError" THEN Tokens \cup {""} ELSE {""},
         alloc \in Allocations(DOMAIN mActiveNetworkRequests) :
          Delivered(FailureKind(error),
                    OnRequestFinished(Cur(alloc), reply, error, header),
                    ScenarioReply(mActiveNetworkRequests[reply], error), FALSE)

\* QFutureWatcher::finished
ParseFinished ==
    \E request \in BagToSet(parseFutures) :
      \E outcome \in ParseOutcomes(request),
         alloc \in Allocations(DOMAIN mActiveNetworkRequests) :
          Delivered(OutcomeKind(request, outcome),
                    OnParseFinished([Cur(alloc) EXCEPT !.parseFutures =
                                                         @ (-) SetToBag({request})],
                                    request, outcome.parsedOk, outcome.success,
                                    outcome.data),
                    ScenarioParsed(request, outcome),
                    /\ outcome.parsedOk /\ ~outcome.success
                    /\ (request.method \in CycleMethods \/ request.scheduled))

\* The QHostInfo::lookupHost callback
HostLookupFinished ==
    \E tracked \in BOOLEAN :
        /\ IF tracked THEN mPendingHostInfoLookupId ELSE untrackedLookups > 0
        /\ Delivered("none", OnHostLookupFinished(Cur(<<>>), tracked),
                     IF tracked THEN scenario ELSE ScenarioOff, FALSE)

----------------------------------------------------------------------------
\* The RequestRouter object as its handlers take it
RouterCur(alloc) ==
    [mSessionId |-> mSessionId,
     mRetryingNetworkRequests |-> mRetryingNetworkRequests,
     retryAttempts |-> retryAttempts,
     mPendingNetworkRequests |-> mPendingNetworkRequests,
     mPendingParseFutures |-> mPendingParseFutures,
     cancelledFutures |-> cancelledFutures,
     signals |-> <<>>, alloc |-> alloc, overflow |-> FALSE]

\* The RequestRouter object after a handler: q becomes the state.
RouterBecomes(kind, after) ==
  \E q \in {after} :
    /\ component = "RequestRouter"
    /\ Spend(kind, TRUE)
    /\ ~q.overflow
    /\ Cardinality(DOMAIN q.mPendingNetworkRequests) <= MaxActive
    /\ BagCardinality(q.mPendingParseFutures) + q.cancelledFutures <= MaxParsing
    /\ mSessionId' = q.mSessionId
    /\ \E renaming \in {Renaming(q.mPendingNetworkRequests, q.mRetryingNetworkRequests)} :
          /\ mPendingNetworkRequests' = Renamed(q.mPendingNetworkRequests, renaming)
          /\ mRetryingNetworkRequests' = Renamed(q.mRetryingNetworkRequests, renaming)
    /\ retryAttempts' = q.retryAttempts
    /\ mPendingParseFutures' = q.mPendingParseFutures
    /\ cancelledFutures' = q.cancelledFutures
    /\ signals' = q.signals
    /\ UNCHANGED <<component, rpcVars, updaterVars, scenario, cycleFailed>>

RouterMethods == {"session-get", "torrent-get"}

\* The calls of the RequestRouter's owner
PostRequestCall ==
    \E method \in RouterMethods, alloc \in Allocations(DOMAIN mPendingNetworkRequests) :
        RouterBecomes("postRequest", RouterPostRequest(RouterCur(alloc), method))

\* The owner configures the router between its requests, so that a request
\* has one retry budget for all of its attempts.
SetConfigurationCall ==
    \E n \in 0..defaultRetryAttempts :
        /\ n # retryAttempts
        /\ mPendingNetworkRequests = EmptyMap
        /\ RouterBecomes("setConfiguration", SetConfiguration(RouterCur(<<>>), n))

CancelCall ==
    \E alloc \in {<<>>} :
        RouterBecomes("cancel", CancelPendingRequestsAndClearSessionId(RouterCur(alloc)))

\* QNetworkReply::finished
RouterReplyFinished ==
    \E reply \in DOMAIN mPendingNetworkRequests, error \in NetworkErrors :
      \E header \in IF error = "ContentConflictError" THEN Tokens \cup {""} ELSE {""},
         alloc \in Allocations(DOMAIN mPendingNetworkRequests) :
          RouterBecomes(FailureKind(error),
                        RouterOnRequestFinished(RouterCur(alloc), reply, error, header))

\* ParseFutureWatcher::finished
RouterParseFinished ==
    \E request \in BagToSet(mPendingParseFutures), hasValue \in BOOLEAN, success \in BOOLEAN :
        /\ ~hasValue => ~success
        /\ RouterBecomes(IF ~hasValue THEN "parse" ELSE IF ~success THEN "protocol" ELSE "none",
                         RouterOnParseFinished(RouterCur(<<>>), request, hasValue, success))

RouterCancelledParseFinished ==
    /\ cancelledFutures > 0
    /\ RouterBecomes("none", RouterOnCancelledParseFinished(RouterCur(<<>>)))

----------------------------------------------------------------------------
\* The objects as their constructors leave them
Init ==
    /\ component \in {"Rpc", "RequestRouter"}
    /\ budget \in IF component = "Rpc" THEN RpcBudgets ELSE RouterBudgets
    /\ mStatus = StatusOf("Disconnected")
    /\ mServerUrl = ""
    /\ mUpdateDisabled = FALSE
    /\ mUpdating = FALSE
    /\ mAutoReconnectEnabled = FALSE
    /\ mServerIsLocal = "nullopt"
    /\ mPendingHostInfoLookupId = FALSE
    /\ mServerSettingsUpdated = FALSE
    /\ mTorrentsUpdated = FALSE
    /\ mServerStatsUpdated = FALSE
    /\ mServerSettings = [rpcVersion |-> 0, minimumRpcVersion |-> 0]
    /\ mUpdateTimer = FALSE
    /\ mAutoReconnectTimer = FALSE
    /\ mTorrents = <<>>
    /\ mActiveNetworkRequests = EmptyMap
    /\ parseFutures = EmptyBag
    /\ untrackedLookups = 0
    /\ mSessionId = ""
    /\ mRetryingNetworkRequests = EmptyMap
    /\ retryAttempts = defaultRetryAttempts
    /\ mPendingNetworkRequests = EmptyMap
    /\ mPendingParseFutures = EmptyBag
    /\ cancelledFutures = 0
    /\ signals = <<>>
    /\ scenario = ScenarioOff
    /\ cycleFailed = FALSE
    /\ items = <<>>
    /\ newItems = <<>>
    /\ events = <<>>
    /\ updated = <<>>

Next ==
    \/ SetServerCall
    \/ ResetServerCall
    \/ ConnectCall
    \/ DisconnectCall
    \/ SetUpdateDisabledCall
    \/ UpdateDataCall
    \/ CommandCall
    \/ SetFilesEnabledCall
    \/ SetPeersEnabledCall
    \/ SetDownloadSpeedLimitedCall
    \/ UpdateTimerTimeout
    \/ AutoReconnectTimerTimeout
    \/ ReplyFinished
    \/ ParseFinished
    \/ HostLookupFinished
    \/ PostRequestCall
    \/ SetConfigurationCall
    \/ CancelCall
    \/ RouterReplyFinished
    \/ RouterParseFinished
    \/ RouterCancelledParseFinished

Spec == Init /\ [][Next]_vars

\* The Rpc polling a daemon: the user enables files and peers of a torrent,
\* or the daemon answers a request with a failure.  No other call is made
\* and no reply is lost: the event loop delivers every reply in flight and
\* every parse task's result.
LiveBudgets == {b \in RpcBudgets : b["setPeersEnabled"] > 0 \/ b["protocol"] > 0}

LiveInit == Init /\ budget \in LiveBudgets

LiveNext ==
    \/ SetServerCall
    \/ ConnectCall
    \/ SetFilesEnabledCall
    \/ SetPeersEnabledCall
    \/ UpdateTimerTimeout
    \/ ReplyFinished
    \/ ParseFinished

LiveSpec ==
    /\ LiveInit /\ [][LiveNext]_vars
    /\ WF_vars(ReplyFinished) /\ WF_vars(ParseFinished)

-----------------------------------------------------------------------------
(***************************************************************************)
(* ItemListUpdater::update() on its own, as TorrentsListUpdater            *)
(* instantiates it.  The collections hold each identity once.  Identities  *)
(* are interchangeable, so the items of the collection are numbered in     *)
(* their order; the incoming items come in any order, changed or not.      *)
(***************************************************************************)
ItemIds == 1..MaxItems

\* A torrent of the collection, with its files enabled and received
ExistingTorrent(id) ==
    [NewTorrentObject([id |-> id, changed |-> FALSE, downloadSpeedLimited |-> FALSE])
        EXCEPT !.mFilesEnabled = TRUE, !.mFilesUpdated = "data"]

ExistingItems == {[k \in 1..n |-> ExistingTorrent(k)] : n \in 0..MaxItems}

IncomingItems ==
    UNION {{[k \in 1..n |-> [id |-> ids[k], changed |-> c[k],
                              downloadSpeedLimited |-> FALSE]] :
               ids \in {f \in [1..n -> ItemIds] :
                           \A i, j \in 1..n : f[i] = f[j] => i = j},
               c \in [1..n -> BOOLEAN]} : n \in 0..MaxItems}

UpdaterInit ==
    /\ component = "ItemListUpdater"
    /\ budget = Budget([updateTimer |-> 0])
    /\ mStatus = StatusOf("Disconnected")
    /\ mServerUrl = ""
    /\ mUpdateDisabled = FALSE
    /\ mUpdating = FALSE
    /\ mAutoReconnectEnabled = FALSE
    /\ mServerIsLocal = "nullopt"
    /\ mPendingHostInfoLookupId = FALSE
    /\ mServerSettingsUpdated = FALSE
    /\ mTorrentsUpdated = FALSE
    /\ mServerStatsUpdated = FALSE
    /\ mServerSettings = [rpcVersion |-> 0, minimumRpcVersion |-> 0]
    /\ mUpdateTimer = FALSE
    /\ mAutoReconnectTimer = FALSE
    /\ mTorrents = <<>>
    /\ mActiveNetworkRequests = EmptyMap
    /\ parseFutures = EmptyBag
    /\ untrackedLookups = 0
    /\ mSessionId = ""
    /\ mRetryingNetworkRequests = EmptyMap
    /\ retryAttempts = defaultRetryAttempts
    /\ mPendingNetworkRequests = EmptyMap
    /\ mPendingParseFutures = EmptyBag
    /\ cancelledFutures = 0
    /\ signals = <<>>
    /\ scenario = ScenarioOff
    /\ cycleFailed = FALSE
    /\ items \in ExistingItems
    /\ newItems \in IncomingItems
    /\ events = <<>>
    /\ updated = <<>>

\* updater.update(items, std::move(newItems))
UpdateCall ==
    /\ component = "ItemListUpdater"
    /\ \E u \in {ListUpdate(items, newItems)} :
          /\ items' = u.items
          /\ events' = u.events
          /\ updated' = u.updated
    /\ newItems' = <<>>
    /\ UNCHANGED <<component, rpcVars, sharedVars, routerVars,
                   signals, scenario, cycleFailed, budget>>

UpdaterNext == UpdateCall

UpdaterSpec == UpdaterInit /\ [][UpdaterNext]_vars

----------------------------------------------------------------------------
(***************************************************************************)
(* The properties                                                          *)
(***************************************************************************)
ConnectionState == mStatus.connectionState

\* The entries of the last handler's signals with the given name
Emitted(name) == {signals[i] : i \in {k \in DOMAIN signals : signals[k][1] = name}}

CycleFlags == <<mServerSettingsUpdated, mTorrentsUpdated, mServerStatsUpdated>>

\* C1: the connection state changes only along Disconnected -> Connecting,
\* Connecting -> Connected, Connecting -> Disconnected and Connected ->
\* Disconnected; Connecting is entered only from Disconnected with a server
\* URL; and connect() enters Connecting, posting the settings request, exactly
\* when the state is Disconnected and the URL is not empty: in every other
\* state it returns the object as it was, with no request posted.
C1_Step ==
    /\ ConnectionState' # ConnectionState =>
          <<ConnectionState, ConnectionState'>> \in
              {<<"Disconnected", "Connecting">>, <<"Connecting", "Connected">>,
               <<"Connecting", "Disconnected">>, <<"Connected", "Disconnected">>}
    /\ ConnectionState' = "Connecting" /\ ConnectionState # "Connecting" =>
          ConnectionState = "Disconnected" /\ mServerUrl # ""
    /\ \A alloc \in Allocations(DOMAIN mActiveNetworkRequests) :
          IF ConnectionState = "Disconnected" /\ mServerUrl # ""
          THEN /\ Connect(Cur(alloc)).mStatus.connectionState = "Connecting"
               /\ \E a \in DOMAIN Connect(Cur(alloc)).mActiveNetworkRequests :
                      a \notin DOMAIN mActiveNetworkRequests
          ELSE Connect(Cur(alloc)) = Cur(alloc)

C1_ConnectionStateEdges == [][C1_Step]_vars

\* connect() has just entered Connecting and posted the settings request
C1_Witness ==
    /\ ConnectionState = "Connecting"
    /\ <<"connectionStateChanged">> \in Emitted("connectionStateChanged")
    /\ \E a \in DOMAIN mActiveNetworkRequests :
          mActiveNetworkRequests[a].method = "session-get"
    /\ ~mServerSettingsUpdated

\* C2: a step enters Connected from Connecting only with the three cycle
\* flags set and the locality result present, and starts the poll timer only
\* with the three flags set; and maybeFinishUpdateOrConnection, called in the
\* current state with any of the flags false, or while Connecting with all of
\* them set and no locality result, changes neither the connection state nor
\* the poll timer.
C2_Step ==
    /\ ConnectionState = "Connecting" /\ ConnectionState' = "Connected" =>
          CycleFlags' = <<TRUE, TRUE, TRUE>> /\ mServerIsLocal' # "nullopt"
    /\ ~mUpdateTimer /\ mUpdateTimer' => CycleFlags' = <<TRUE, TRUE, TRUE>>
    /\ \A settings, torrents, stats \in BOOLEAN, local \in {"nullopt", "value"} :
          (\/ ~(settings /\ torrents /\ stats)
           \/ ConnectionState = "Connecting" /\ local = "nullopt") =>
            \E r \in {MaybeFinishUpdateOrConnection(
                          [Cur(<<>>) EXCEPT !.mServerSettingsUpdated = settings,
                                            !.mTorrentsUpdated = torrents,
                                            !.mServerStatsUpdated = stats,
                                            !.mServerIsLocal = local])} :
                /\ r.mStatus = mStatus
                /\ r.mUpdateTimer = mUpdateTimer

C2_CompletionNeedsEveryFlag == [][C2_Step]_vars

\* The statistics callback has called maybeFinishUpdateOrConnection with
\* settings-updated and stats-updated set and torrents-updated not: the
\* state is still Connecting and the poll timer is not started.
C2_Witness ==
    /\ ConnectionState = "Connecting"
    /\ CycleFlags = <<TRUE, FALSE, TRUE>>
    /\ mUpdating
    /\ \E n \in Emitted("#callback") : n[2].method = "session-stats" /\ n[3]
    /\ ~mUpdateTimer

\* C3: end-to-end connect.  In a run that starts Disconnected with a server
\* URL and updates not disabled, and consists of connect(), the successful
\* responses to the settings request (a supported version), the torrent list
\* request (2 torrents) and the statistics request, and the locality probe:
\* once the three responses are delivered and the locality is known the
\* state is Connected, connectedChanged was emitted once and after it
\* torrentsUpdated once, with no removed ranges, no changed ranges and
\* addedCount 2, and the poll timer is active; before that neither is emitted.
C3_EndToEndConnect ==
    scenario.on =>
        IF scenario.delivered = CycleMethods /\ mServerIsLocal # "nullopt"
        THEN /\ ConnectionState = "Connected"
             /\ scenario.log = << <<"connectedChanged">>,
                                  <<"torrentsUpdated", <<>>, <<>>, 2>> >>
             /\ mUpdateTimer
        ELSE /\ ConnectionState = "Connecting"
             /\ scenario.log = <<>>

\* The fetches of a poll cycle: settings, torrent list, statistics and the
\* scheduled files and peers fetches
CycleFetch(request) ==
    \/ request.method \in CycleMethods
    \/ request.method \in {"files", "peers"} /\ request.scheduled

CycleFetchOutstanding ==
    \/ \E a \in DOMAIN mActiveNetworkRequests : CycleFetch(mActiveNetworkRequests[a])
    \/ \E request \in BagToSet(parseFutures) : CycleFetch(request)
    \/ mPendingHostInfoLookupId \/ untrackedLookups > 0

\* C4: a poll cycle whose fetches are all answered successfully completes
\* whatever the order of the responses.  While the update-in-progress flag is
\* set and no fetch of the cycle was answered with a failure, a fetch of the
\* cycle (or the address lookup) is still outstanding; and once the flag is false, the state is not
\* left Connecting with the three flags set and the locality known, and in
\* Connected with updates not disabled the poll timer is active.
C4_CycleCompletes ==
    /\ mUpdating /\ ~cycleFailed => CycleFetchOutstanding
    /\ ~mUpdating /\ ConnectionState = "Connecting" =>
          ~(CycleFlags = <<TRUE, TRUE, TRUE>> /\ mServerIsLocal # "nullopt")
    /\ ~mUpdating /\ ConnectionState = "Connected" /\ ~mUpdateDisabled => mUpdateTimer

DisconnectedIsReset ==
    /\ mActiveNetworkRequests = EmptyMap
    /\ mRetryingNetworkRequests = EmptyMap
    /\ mSessionId = ""
    /\ mServerIsLocal = "nullopt"
    /\ ~mPendingHostInfoLookupId /\ untrackedLookups = 0
    /\ ~mUpdateTimer
    /\ ~mUpdating
    /\ CycleFlags = <<FALSE, FALSE, FALSE>>

\* C6: right after every transition of the connection state to Disconnected
\* no request is pending, no retry count is kept, the session id is empty,
\* the locality result is absent, no address lookup is pending, the poll
\* timer is stopped, the update-in-progress flag and the cycle flags are false.
C6_Step ==
    ConnectionState # "Disconnected" /\ ConnectionState' = "Disconnected" =>
        DisconnectedIsReset'

C6_DisconnectResetsEverything == [][C6_Step]_vars

\* The notifications of a handler that tell of a disconnection
DisconnectNotifications(emitted) ==
    SelectSeq(emitted, LAMBDA e : e[1] \in {"aboutToDisconnect", "onAboutToRemoveTorrents",
                                            "onRemovedTorrents", "statusChanged",
                                            "torrentsUpdated"})

\* C7: on a transition to Disconnected from Connected with n torrents the
\* handler emits aboutToDisconnect, then (when n > 0) onAboutToRemoveTorrents
\* (0, n) with the collection still full and onRemovedTorrents(0, n) with the
\* collection empty, then statusChanged and then torrentsUpdated with the one
\* removed range (0, n), no changed range and addedCount 0; on a transition
\* from Connecting it emits none of the removal notifications and no
\* torrentsUpdated, and the collection is left as it is.
C7_Step ==
    ConnectionState # "Disconnected" /\ ConnectionState' = "Disconnected" =>
        IF ConnectionState = "Connected"
        THEN /\ DisconnectNotifications(signals') =
                    << <<"aboutToDisconnect">> >>
                    \o (IF mTorrents # <<>>
                        THEN << <<"onAboutToRemoveTorrents", 0, Len(mTorrents), Len(mTorrents)>>,
                                <<"onRemovedTorrents", 0, Len(mTorrents), 0>> >>
                        ELSE <<>>)
                    \o << <<"statusChanged">>,
                           <<"torrentsUpdated", << <<0, Len(mTorrents)>> >>, <<>>, 0>> >>
             /\ mTorrents' = <<>>
        ELSE /\ DisconnectNotifications(signals') = << <<"statusChanged">> >>
             /\ mTorrents' = mTorrents

C7_RemovalOnlyFromConnected == [][C7_Step]_vars

\* Disconnected from Connected with torrents: the removal was notified
C7_Witness ==
    /\ ConnectionState = "Disconnected"
    /\ \E e \in Emitted("onRemovedTorrents") : e[3] > 0
    /\ mTorrents = <<>>

----------------------------------------------------------------------------
\* The notes and notifications of the given name among those of a handler
Notes(emitted, name) == {emitted[i] : i \in {k \in DOMAIN emitted : emitted[k][1] = name}}

\* The replies in flight of the component
Pending == IF component = "Rpc" THEN mActiveNetworkRequests ELSE mPendingNetworkRequests

\* How many replies in flight carry the request
Copies(pending, request) == Cardinality({a \in DOMAIN pending : pending[a] = request})

\* The number of retries a request is allowed
RetryBudget == IF component = "Rpc" THEN maxRetryAttempts ELSE retryAttempts

\* Every failed attempt of the request was a timeout
OnlyTimedOut(request) == request.failed = request.timedOut

\* C8: a request all of whose failed attempts were timeouts is retried after
\* a timeout only while it has timed out at most RetryBudget times; when an
\* attempt of it succeeds it has timed out at most RetryBudget times, the
\* status is left as it is and no requestFailed is raised; it is given up
\* exactly at its timeout number RetryBudget + 1, with the error TimedOut, and
\* is not posted again.
C8_Step ==
    /\ \A n \in Notes(signals', "#parse") :
          OnlyTimedOut(n[2]) =>
              /\ n[2].timedOut <= RetryBudget
              /\ mStatus' = mStatus
              /\ Notes(signals', "requestFailed") = {}
    /\ \A n \in Notes(signals', "#retry") :
          OnlyTimedOut(n[2]) /\ n[3] = "TimeoutError" => n[2].timedOut < RetryBudget
    /\ \A n \in Notes(signals', "#failed") :
          OnlyTimedOut(n[2]) /\ n[3] = "TimeoutError" =>
              /\ n[2].timedOut = RetryBudget
              /\ IF component = "Rpc"
                 THEN mStatus'.connectionState = "Disconnected" /\ mStatus'.error = "TimedOut"
                 ELSE Notes(signals', "requestFailed") = {<<"requestFailed", "TimedOut", n[3]>>}
              /\ Cardinality(DOMAIN Pending') < Cardinality(DOMAIN Pending)

C8_RetryBudget == [][C8_Step]_vars

\* C9: when a conflict response carries a session id other than the one the
\* request carried, the session id of the transport becomes the response's,
\* the request is posted once more in the same handler, carrying the new
\* session id, and the retry count of the new reply is not greater than the
\* retry count of the finished one.
C9_Step ==
    \A n \in Notes(signals', "#resubmit") :
        /\ n[3] # n[2].sessionId
        /\ mSessionId' = n[3]
        /\ Copies(Pending', [n[2] EXCEPT !.sessionId = n[3], !.failed = @ + 1])
               = Copies(Pending, [n[2] EXCEPT !.sessionId = n[3], !.failed = @ + 1]) + 1
        /\ Cardinality(DOMAIN Pending') = Cardinality(DOMAIN Pending)
        /\ n[5] <= n[4]

C9_SessionRotation == [][C9_Step]_vars

\* The "#retry" and "#failed" notes of conflict responses whose session id is
\* the one the request carried
SameSessionIdConflicts(emitted) ==
    {n \in Notes(emitted, "#retry") \cup Notes(emitted, "#failed") :
        n[3] = "ContentConflictError" /\ n[4] # "" /\ n[4] = n[2].sessionId}

\* C10 (as amended): a conflict response whose session id is the one the
\* request carried never makes the transport take the response's session id
\* and resubmit; it is handled as any other failed attempt: the request is
\* retried, one more reply in flight carrying the transport's session id,
\* which is left as it is, or the retries being used up the error
\* ConnectionError is raised (the Rpc disconnects, which clears its session
\* id; the RequestRouter raises requestFailed and keeps its session id).
C10_Step ==
    /\ \A n \in Notes(signals', "#resubmit") : n[3] # n[2].sessionId
    /\ \A n \in SameSessionIdConflicts(signals') :
          IF n[1] = "#retry"
          THEN /\ mSessionId' = mSessionId
               /\ Copies(Pending', [n[2] EXCEPT !.sessionId = mSessionId, !.failed = @ + 1])
                      = Copies(Pending, [n[2] EXCEPT !.sessionId = mSessionId,
                                                     !.failed = @ + 1]) + 1
          ELSE IF component = "Rpc"
          THEN /\ mStatus'.connectionState = "Disconnected"
               /\ mStatus'.error = "ConnectionError"
               /\ mSessionId' = ""
          ELSE /\ Notes(signals', "requestFailed")
                      = {<<"requestFailed", "ConnectionError", n[3]>>}
               /\ mSessionId' = mSessionId

C10_SameSessionIdIsAnOrdinaryFailure == [][C10_Step]_vars

\* A request was retried after a conflict response that carried the
\* request's own session id
C10_Witness ==
    \E n \in SameSessionIdConflicts(signals) :
        n[1] = "#retry" /\ n[2].sessionId = mSessionId

\* C10 as stated: after a conflict response whose session id is the one the
\* request carried the request is not posted again and the session id of the
\* transport is left as it is.
C10_AsStatedStep ==
    /\ \A n \in Notes(signals', "#resubmit") : n[3] # n[2].sessionId
    /\ \A n \in SameSessionIdConflicts(signals') :
          /\ n[1] # "#retry"
          /\ mSessionId' = mSessionId

C10_SameSessionIdIsNotResubmitted == [][C10_AsStatedStep]_vars

----------------------------------------------------------------------------
\* C11: cancelPendingRequestsAndClearSessionId() leaves the session id empty
\* and both registries of the RequestRouter empty and emits nothing (the
\* aborted replies finish within the call); the completion of a parse task
\* that was pending at the call emits nothing and invokes no callback
\* afterwards, whenever it fires; a callback is only invoked for a request
\* that is in mPendingParseFutures, and requestFailed is only emitted by the
\* completion of a reply or parse task that is in a registry.
C11_Step ==
    component = "RequestRouter" =>
        /\ budget'["cancel"] < budget["cancel"] =>
              /\ mSessionId' = ""
              /\ mPendingNetworkRequests' = EmptyMap
              /\ mPendingParseFutures' = EmptyBag
              /\ signals' = <<>>
              /\ cancelledFutures' = cancelledFutures + BagCardinality(mPendingParseFutures)
        /\ cancelledFutures' < cancelledFutures =>
              /\ signals' = <<>>
              /\ UNCHANGED <<mSessionId, mPendingNetworkRequests, mPendingParseFutures>>
        /\ \A n \in Notes(signals', "#callback") :
              /\ BagIn(n[2], mPendingParseFutures)
              /\ BagCardinality(mPendingParseFutures') = BagCardinality(mPendingParseFutures) - 1
        /\ Notes(signals', "requestFailed") # {} =>
              \/ BagCardinality(mPendingParseFutures') < BagCardinality(mPendingParseFutures)
              \/ \E n \in Notes(signals', "#failed") :
                    \E a \in DOMAIN mPendingNetworkRequests : mPendingNetworkRequests[a] = n[2]

C11_CancelAll == [][C11_Step]_vars

\* After a cancel-all that caught a reply being retried and a parse task,
\* the cancelled parse task being still to finish
C11_Witness ==
    /\ component = "RequestRouter"
    /\ cancelledFutures > 0
    /\ mSessionId = "" /\ mPendingNetworkRequests = EmptyMap /\ mPendingParseFutures = EmptyBag
    /\ mRetryingNetworkRequests # EmptyMap
    /\ signals = <<>>

----------------------------------------------------------------------------
\* The parse tasks of requests made before the last transition to Disconnected
StaleFutures ==
    BagCardinality(parseFutures)
        - BagCardinality([q \in {f \in BagToSet(parseFutures) : ~f.stale} |-> parseFutures[q]])

\* C12: a transition of the Rpc to Disconnected leaves no reply in flight
\* (the aborted replies finish within it), and the completion of a parse
\* task of a request made before a transition to Disconnected, firing after
\* it, invokes no callback, emits nothing, and leaves the status, the cycle
\* flags, the torrents and the replies in flight as they are, also when
\* connect() was called in between.
C12_Step ==
    component = "Rpc" =>
        /\ ConnectionState' = "Disconnected" => mActiveNetworkRequests' = EmptyMap
        /\ \A n \in Notes(signals', "#callback") : ~n[2].stale
        /\ StaleFutures' < StaleFutures =>
              /\ signals' = <<>>
              /\ UNCHANGED <<mStatus, mTorrents, mServerSettingsUpdated, mTorrentsUpdated,
                             mServerStatsUpdated, mActiveNetworkRequests>>

C12_LateCompletionsAreNoOps == [][C12_Step]_vars

----------------------------------------------------------------------------
\* The error of the status that a failed reply ends in
TerminalError(error) ==
    CASE error = "AuthenticationRequiredError" -> "AuthenticationError"
      [] error \in {"TimeoutError", "OperationCanceledError"} -> "TimedOut"
      [] OTHER -> "ConnectionError"

\* C13 (as amended): when the Rpc, Connecting or Connected, gives a request
\* up (its retries used up, or authentication failed) or gets a body that is
\* not JSON, or when it gets settings of an unsupported version while
\* Connecting, the status becomes Disconnected with the error of that kind;
\* settings of an unsupported version got while Connected leave the status as
\* it is; and a status with an error is a Disconnected one in every state.
C13_Step ==
    component = "Rpc" =>
        /\ \A n \in Notes(signals', "#failed") :
              /\ ConnectionState # "Disconnected"
              /\ mStatus'.connectionState = "Disconnected"
              /\ mStatus'.error = TerminalError(n[3])
        /\ budget'["parse"] < budget["parse"] =>
              /\ ConnectionState # "Disconnected"
              /\ mStatus'.connectionState = "Disconnected"
              /\ mStatus'.error = "ParseError"
        /\ budget'["version"] < budget["version"] =>
              IF ConnectionState = "Connecting"
              THEN /\ mStatus'.connectionState = "Disconnected"
                   /\ mStatus'.error \in {"ServerIsTooNew", "ServerIsTooOld"}
              ELSE ConnectionState = "Connected" /\ mStatus' = mStatus
        /\ mStatus'.error # "NoError" => mStatus'.connectionState = "Disconnected"

C13_TerminalErrorsDisconnect == [][C13_Step]_vars

\* C13 as stated: settings of an unsupported version, got while Connecting or
\* Connected, make the status Disconnected with the error of the version, as
\* the other terminal errors do.
C13_AsStatedStep ==
    component = "Rpc" =>
        /\ \A n \in Notes(signals', "#failed") :
              /\ mStatus'.connectionState = "Disconnected"
              /\ mStatus'.error = TerminalError(n[3])
        /\ budget'["parse"] < budget["parse"] =>
              mStatus'.connectionState = "Disconnected" /\ mStatus'.error = "ParseError"
        /\ budget'["version"] < budget["version"] =>
              /\ mStatus'.connectionState = "Disconnected"
              /\ mStatus'.error \in {"ServerIsTooNew", "ServerIsTooOld"}
        /\ mStatus'.error # "NoError" => mStatus'.connectionState = "Disconnected"

C13_UnsupportedVersionDisconnects == [][C13_AsStatedStep]_vars

\* A request was given up after its last timeout and the Rpc is Disconnected
\* Settings of an unsupported version have just been stored by a poll cycle
\* and the Rpc is still Connected, without error.
C13_Witness ==
    /\ component = "Rpc"
    /\ \E n \in Notes(signals, "#callback") : n[2].method = "session-get" /\ n[3]
    /\ ~Supported(mServerSettings)
    /\ mStatus = Status("Connected", "NoError", "")

----------------------------------------------------------------------------
\* C14: a reply that ends with AuthenticationRequiredError is never retried:
\* whatever the count of its retries, the request is given up with
\* AuthenticationError (the Rpc is Disconnected, the RequestRouter emits
\* requestFailed) and no reply is posted; a body that is not JSON ends in
\* ParseError the same way, nothing is posted and no callback is invoked.
C14_Step ==
    /\ \A n \in Notes(signals', "#retry") : n[3] # "AuthenticationRequiredError"
    /\ \A n \in Notes(signals', "#failed") :
          n[3] = "AuthenticationRequiredError" =>
              /\ Notes(signals', "#callback") = {}
              /\ IF component = "Rpc"
                 THEN /\ mStatus' = Status("Disconnected", "AuthenticationError", n[3])
                      /\ mActiveNetworkRequests' = EmptyMap
                 ELSE /\ Notes(signals', "requestFailed")
                             = {<<"requestFailed", "AuthenticationError", n[3]>>}
                      /\ Cardinality(DOMAIN mPendingNetworkRequests')
                             = Cardinality(DOMAIN mPendingNetworkRequests) - 1
    /\ budget'["parse"] < budget["parse"] =>
          /\ Notes(signals', "#callback") = {}
          /\ IF component = "Rpc"
             THEN /\ mStatus' = Status("Disconnected", "ParseError", "")
                  /\ mActiveNetworkRequests' = EmptyMap
             ELSE /\ Notes(signals', "requestFailed") = {<<"requestFailed", "ParseError", "">>}
                  /\ Cardinality(DOMAIN mPendingNetworkRequests')
                         = Cardinality(DOMAIN mPendingNetworkRequests)
                  /\ BagCardinality(mPendingParseFutures')
                         = BagCardinality(mPendingParseFutures) - 1

C14_AuthenticationAndParseFailuresAreFinal == [][C14_Step]_vars

\* The first attempt of a request of the RequestRouter, which has retries
\* left, failed authentication and was given up
C14_Witness ==
    /\ component = "RequestRouter"
    /\ retryAttempts > 0
    /\ \E n \in Notes(signals, "#failed") :
          n[3] = "AuthenticationRequiredError" /\ n[2].failed = 0
    /\ <<"requestFailed", "AuthenticationError", "AuthenticationRequiredError">>
          \in Notes(signals, "requestFailed")
-----------------------------------------------------------------------------
\* The first attempts of the method among the replies in flight
Fetches(pending, method) ==
    Cardinality({a \in DOMAIN pending :
                    pending[a].method = method /\ pending[a].failed = 0})

\* The step posts a request of the method
Issued(method) ==
    Fetches(mActiveNetworkRequests', method) > Fetches(mActiveNetworkRequests, method)

\* The step runs the callback of a successful settings request
SettingsReceived ==
    \E n \in Notes(signals', "#callback") : n[2].method = "session-get" /\ n[3]

\* C15: while the Rpc is Connecting, a torrent-list or statistics request is
\* posted only by the step that receives supported settings; the step that
\* receives settings while Connecting ends Disconnected with ServerIsTooNew
\* if the minimum version is above the supported one, else Disconnected with
\* ServerIsTooOld if the version is below it, with no request left or
\* posted, and otherwise posts the torrent-list and the statistics request
\* but no settings request, sets the updating flag and starts the locality
\* probe; and Connected is entered only with supported settings.
C15_Step ==
    component = "Rpc" /\ ConnectionState = "Connecting" =>
        /\ Issued("torrent-get") \/ Issued("session-stats") =>
              SettingsReceived /\ Supported(mServerSettings')
        /\ SettingsReceived =>
              IF mServerSettings'.minimumRpcVersion > minimumRpcVersion
              THEN /\ mStatus' = Status("Disconnected", "ServerIsTooNew", "")
                   /\ mActiveNetworkRequests' = EmptyMap
              ELSE IF mServerSettings'.rpcVersion < minimumRpcVersion
                   THEN /\ mStatus' = Status("Disconnected", "ServerIsTooOld", "")
                        /\ mActiveNetworkRequests' = EmptyMap
                   ELSE /\ Issued("torrent-get") /\ Issued("session-stats")
                        /\ ~Issued("session-get")
                        /\ mUpdating'
                        /\ mServerIsLocal' # "nullopt" \/ mPendingHostInfoLookupId'
        /\ ConnectionState' = "Connected" => Supported(mServerSettings')

C15_SettingsValidatedBeforePolling == [][C15_Step]_vars

-----------------------------------------------------------------------------
\* The step gives a request up after its last retry
GivenUp ==
    \E n \in Notes(signals', "#failed") : n[3] # "AuthenticationRequiredError"

\* The step is the expiry of the auto-reconnect timer: the timer stops and
\* neither the user nor the network has acted.
AutoReconnectTimerExpires ==
    mAutoReconnectTimer /\ ~mAutoReconnectTimer' /\ budget' = budget

\* C16: when the Rpc gives a request up after its last retry (TimedOut or
\* ConnectionError), the auto-reconnect timer is running afterwards if
\* auto-reconnect is enabled and updates are not disabled, and is not running
\* otherwise; and when the timer expires while the Rpc is Disconnected with a
\* server URL, the Rpc becomes Connecting and the settings request is posted.
C16_Step ==
    component = "Rpc" =>
        /\ GivenUp =>
              /\ mStatus'.error \in {"TimedOut", "ConnectionError"}
              /\ mAutoReconnectTimer' = (mAutoReconnectEnabled /\ ~mUpdateDisabled)
        /\ AutoReconnectTimerExpires
              /\ ConnectionState = "Disconnected" /\ mServerUrl # "" =>
                  /\ ConnectionState' = "Connecting"
                  /\ Issued("session-get")

C16_AutoReconnect == [][C16_Step]_vars

\* A request has just been given up and the auto-reconnect timer runs.
C16_Witness ==
    /\ component = "Rpc"
    /\ \E n \in Notes(signals, "#failed") : n[3] = "TimeoutError"
    /\ mStatus.connectionState = "Disconnected"
    /\ mAutoReconnectTimer

-----------------------------------------------------------------------------
\* The user's call of the kind is the step
CallOf(kind) == budget'[kind] < budget[kind]

\* C17: after disconnect(), setServer(), resetServer() and
\* setUpdateDisabled(true) the auto-reconnect timer is not running (it never
\* runs while updates are disabled); the timer starts running only when a
\* request is given up after its last retry; and the Rpc leaves Disconnected
\* without a call of connect() only when the timer was running.
C17_Step ==
    component = "Rpc" =>
        /\ CallOf("disconnect") \/ CallOf("setServer") \/ CallOf("resetServer") =>
              ~mAutoReconnectTimer'
        /\ mUpdateDisabled' => ~mAutoReconnectTimer'
        /\ ~mAutoReconnectTimer /\ mAutoReconnectTimer' => GivenUp
        /\ ConnectionState = "Disconnected" /\ ConnectionState' # "Disconnected"
              /\ ~CallOf("connect") => mAutoReconnectTimer

C17_ExplicitStopsCancelAutoReconnect == [][C17_Step]_vars

\* Updates have just been disabled after a request was given up with
\* auto-reconnect enabled: the timer that was started is stopped.
C17_Witness ==
    /\ component = "Rpc"
    /\ Emitted("updateDisabledChanged") # {}
    /\ mUpdateDisabled /\ mAutoReconnectEnabled
    /\ mStatus.connectionState = "Disconnected" /\ mStatus.error = "TimedOut"
    /\ ~mAutoReconnectTimer

-----------------------------------------------------------------------------
\* The commands whose callback calls updateData() on success
MutationMethods == {"torrent-start", "torrent-rename-path"}

\* The step runs, while the Rpc is Connected, the callback of a mutation
\* command that the daemon answered with "success"
MutationSucceeded ==
    /\ ConnectionState = "Connected"
    /\ \E n \in Notes(signals', "#callback") : n[2].method \in MutationMethods /\ n[3]

\* C18: the step in which the Rpc, Connected, receives the successful result
\* of a mutation command posts a torrent-list request.
C18_Step ==
    component = "Rpc" /\ MutationSucceeded => Issued("torrent-get")

C18_MutationSuccessStartsPollCycle == [][C18_Step]_vars

-----------------------------------------------------------------------------
\* The torrents differ at most in the download-speed-limited attribute of one
\* torrent
OnlyOneLimitChanged(before, after) ==
    /\ Len(after) = Len(before)
    /\ \A k \in 1..Len(before) :
          [after[k] EXCEPT !.downloadSpeedLimited = before[k].downloadSpeedLimited] = before[k]
    /\ Cardinality({k \in 1..Len(before) : after[k] # before[k]}) <= 1

\* C19 (as amended): a call of a mutation command of the Rpc leaves the
\* torrents as they are, the collection and every attribute of every torrent;
\* a call of a torrent's property setter changes nothing of the torrents but
\* that attribute of that torrent.
C19_Step ==
    component = "Rpc" =>
        /\ CallOf("command") => mTorrents' = mTorrents
        /\ CallOf("setDownloadSpeedLimited") => OnlyOneLimitChanged(mTorrents, mTorrents')

C19_CommandsLeaveTorrentsAlone == [][C19_Step]_vars

\* A command has just been posted while the Rpc has torrents.
C19_Witness ==
    /\ component = "Rpc"
    /\ mTorrents # <<>>
    /\ signals = <<>>
    /\ \E a \in DOMAIN mActiveNetworkRequests :
          mActiveNetworkRequests[a].method \in Commands /\ mActiveNetworkRequests[a].failed = 0

\* C19 as stated: a call of a mutation command, a setter of a torrent's
\* property included, leaves the collection and every attribute of every
\* torrent as they are.
C19_AsStatedStep ==
    component = "Rpc" /\ (CallOf("command") \/ CallOf("setDownloadSpeedLimited")) =>
        mTorrents' = mTorrents

C19_SettersLeaveTorrentsAlone == [][C19_AsStatedStep]_vars

-----------------------------------------------------------------------------
\* C20: in every state in which the Rpc is not Connected, a call of a
\* mutation command or of setTorrentProperty returns the object as it was:
\* no request is posted, nothing is emitted and no field changes.
C20_CommandsNeedConnected ==
    component = "Rpc" /\ ConnectionState # "Connected" =>
        \A alloc \in Allocations(DOMAIN mActiveNetworkRequests) :
            /\ \A method \in Commands : Command(Cur(alloc), method) = Cur(alloc)
            /\ \A id \in {1, 2} : SetTorrentProperty(Cur(alloc), id) = Cur(alloc)

\* The user can still call a command and the Rpc is Connecting, with
\* torrents and a request in flight.
C20_Witness ==
    /\ component = "Rpc"
    /\ budget["command"] > 0
    /\ ConnectionState = "Connecting"
    /\ mTorrents # <<>>
    /\ mActiveNetworkRequests # EmptyMap

-----------------------------------------------------------------------------
\* The identities of a collection, in its order
Ids(seq) == [k \in 1..Len(seq) |-> seq[k].id]

\* The ranges erased one after the other, in their order
RECURSIVE Replay(_, _)
Replay(seq, ranges) ==
    IF ranges = <<>> THEN seq
    ELSE Replay(EraseRange(seq, ranges[1][1], ranges[1][2]), Tail(ranges))

\* The positions of the items that have an incoming item of their identity
Matched(existing, incoming) ==
    {k \in 1..Len(existing) : existing[k].id \in SeqToSet(Ids(incoming))}

\* The incoming item of the identity
Incoming(incoming, id) == incoming[CHOOSE j \in 1..Len(incoming) : incoming[j].id = id]

\* The incoming items that no item of the collection has the identity of
Unmatched(existing, incoming) ==
    SelectSeq(incoming, LAMBDA n : n.id \notin SeqToSet(Ids(existing)))

\* The callbacks of the update() of the step
Removed == RangesOf(events', "onRemovedItems")
Changed == RangesOf(events', "onChangedItems")
Added == SelectSeq(events', LAMBDA e : e.ev = "onAddedItems")

\* C21: an item of the collection whose identity occurs in the incoming
\* collection is, after update(), the same object updated by updateItem():
\* it is in the collection once, updateItem() was called for it once, no
\* removed range erases it, it is not among the added items, and the items
\* that stay keep their order.  [A(v1)] against [A(v2)] reports no removal
\* and adds nothing.
C21_Step ==
    component = "ItemListUpdater" =>
        /\ \A k \in Matched(items, newItems) :
              /\ \E p \in 1..(Len(items') - Len(Unmatched(items, newItems))) :
                    /\ items'[p] = TorrentUpdate(items[k], Incoming(newItems, items[k].id))
                    /\ \A o \in 1..Len(items') : items'[o].id = items[k].id => o = p
              /\ Cardinality({j \in 1..Len(updated') : updated'[j] = items[k].id}) = 1
              /\ items[k].id \in SeqToSet(Replay(Ids(items), Removed))
        /\ SelectSeq(Ids(items'), LAMBDA id : id \in SeqToSet(Ids(items)))
              = SelectSeq(Ids(items), LAMBDA id : id \in SeqToSet(Ids(newItems)))
        /\ Len(items) = 1 /\ Len(newItems) = 1 /\ newItems[1].id = items[1].id =>
              Removed = <<>> /\ Added = <<>>

C21_IdentityPreserved == [][C21_Step]_vars

\* [A(v1)] has been reconciled against [A(v2)]: the object is the one it was,
\* with its files still enabled, and it was reported as changed.
C21_Witness ==
    /\ component = "ItemListUpdater"
    /\ Len(items) = 1 /\ items[1].id = 1 /\ items[1].mFilesEnabled
    /\ updated = <<1>>
    /\ events = <<Ev("onChangedItems", 0, 1)>>

-----------------------------------------------------------------------------
\* The positions of the items that have no incoming item of their identity
Absent(existing, incoming) == (1..Len(existing)) \ Matched(existing, incoming)

\* The positions at which a maximal run of absent items starts
RunStarts(existing, incoming) ==
    {k \in Absent(existing, incoming) : k - 1 \notin Absent(existing, incoming)}

\* The length of the run that starts at the position
RunLength(existing, incoming, start) ==
    Min({n \in 1..Len(existing) : start + n \notin Absent(existing, incoming)})

\* The range (first, last) update() has to report for the run: the items
\* absent before it are erased by then
RunRange(existing, incoming, start) ==
    With(start - 1 - Cardinality({k \in Absent(existing, incoming) : k < start}),
         LAMBDA first : <<first, first + RunLength(existing, incoming, start)>>)

\* One range for each maximal run, in the order of the runs
RunRanges(existing, incoming) ==
    With(RunStarts(existing, incoming), LAMBDA starts :
        [j \in 1..Cardinality(starts) |->
            RunRange(existing, incoming,
                     CHOOSE st \in starts : Cardinality({o \in starts : o < st}) = j - 1)])

\* C22: update() reports one removed range for each maximal run of
\* consecutive items absent from the incoming collection, covering the whole
\* run, each as one onAboutToRemoveItems followed at once by the
\* onRemovedItems of the same range.  [A,B,C,D] against [A,D] reports the one
\* removed range (1,3).
C22_Step ==
    component = "ItemListUpdater" =>
        /\ Removed = RunRanges(items, newItems)
        /\ RangesOf(events', "onAboutToRemoveItems") = Removed
        /\ \A i \in 1..Len(events') :
              events'[i].ev = "onAboutToRemoveItems" =>
                  /\ i < Len(events')
                  /\ events'[i + 1] = [events'[i] EXCEPT !.ev = "onRemovedItems"]
        /\ Ids(items) = <<1, 2, 3, 4>> /\ Ids(newItems) = <<1, 4>> =>
              Removed = <<<<1, 3>>>>

C22_RemovedRangesCoalesced == [][C22_Step]_vars

\* [A,B,C,D] has been reconciled against [A,D]: one range (1,3) was removed.
C22_Witness ==
    /\ component = "ItemListUpdater"
    /\ Ids(items) = <<1, 4>>
    /\ updated = <<1, 4>>
    /\ RangesOf(events, "onRemovedItems") = <<<<1, 3>>>>

-----------------------------------------------------------------------------
\* The positions of the items updateItem() returns true for
ChangedPositions(existing, incoming) ==
    {k \in Matched(existing, incoming) :
        TorrentChanged(existing[k], Incoming(incoming, existing[k].id))}

\* The positions at which a maximal run of such items starts
ChangedRunStarts(existing, incoming) ==
    {k \in ChangedPositions(existing, incoming) :
        k - 1 \notin ChangedPositions(existing, incoming)}

\* The range of the run that starts at the position, in the indices of the
\* resulting collection
ChangedRunRange(existing, incoming, start) ==
    With(start - 1 - Cardinality({k \in Absent(existing, incoming) : k < start}),
         LAMBDA first :
            <<first,
              first + Min({n \in 1..Len(existing) :
                              start + n \notin ChangedPositions(existing, incoming)})>>)

ChangedRunRanges(existing, incoming) ==
    With(ChangedRunStarts(existing, incoming), LAMBDA starts :
        [j \in 1..Cardinality(starts) |->
            ChangedRunRange(existing, incoming,
                            CHOOSE st \in starts : Cardinality({o \in starts : o < st}) = j - 1)])

\* The index (0-based) of the identity in the collection
IndexOf(seq, id) == (CHOOSE p \in 1..Len(seq) : seq[p].id = id) - 1

\* C23 (as amended): update() reports one changed range for each maximal run
\* of items that are consecutive in the collection as it was and for which
\* updateItem() returned true, in the indices of the resulting collection;
\* the ranges follow each other without overlapping (two of them abut where
\* the items between their runs were removed).
C23_Step ==
    component = "ItemListUpdater" =>
        /\ Changed = ChangedRunRanges(items, newItems)
        /\ \A i, j \in 1..Len(Changed) : i < j => Changed[i][2] <= Changed[j][1]

C23_ChangedRangesCoalesced == [][C23_Step]_vars

\* [A,B,C] has been reconciled against [A,C], both changed: A and C are
\* reported in two ranges, B having been removed between them.
C23_Witness ==
    /\ component = "ItemListUpdater"
    /\ Ids(items) = <<1, 3>>
    /\ RangesOf(events, "onRemovedItems") = <<<<1, 2>>>>
    /\ RangesOf(events, "onChangedItems") = <<<<0, 1>>, <<1, 2>>>>

\* C23 as stated: the items that stay, for which updateItem() returned true
\* and which are at adjacent indices of the resulting collection, are in one
\* changed range, and no two changed ranges abut or overlap.
C23_AsStatedStep ==
    component = "ItemListUpdater" =>
        /\ \A k, l \in ChangedPositions(items, newItems) :
              IndexOf(items', items[l].id) = IndexOf(items', items[k].id) + 1 =>
                  \E i \in 1..Len(Changed) :
                      /\ Changed[i][1] <= IndexOf(items', items[k].id)
                      /\ IndexOf(items', items[l].id) < Changed[i][2]
        /\ \A i, j \in 1..Len(Changed) :
              i # j => Changed[i][2] < Changed[j][1] \/ Changed[j][2] < Changed[i][1]

C23_AdjacentChangesInOneRange == [][C23_AsStatedStep]_vars

-----------------------------------------------------------------------------
\* The total length of the ranges
RECURSIVE TotalLength(_)
TotalLength(ranges) ==
    IF ranges = <<>> THEN 0
    ELSE ranges[1][2] - ranges[1][1] + TotalLength(Tail(ranges))

\* The count update() reports as added, 0 when it reports none
AddedCount == IF Added = <<>> THEN 0 ELSE Added[1].first

\* How many times the identity is in the sequence of identities
Times(ids, id) == Cardinality({k \in 1..Len(ids) : ids[k] = id})

\* C24: after update() the collection has as many items as it had, less the
\* lengths of the removed ranges, plus the added count; an item of the
\* collection is either erased by the removed ranges, and then gone, or is
\* in the resulting collection once; an incoming item is either taken by
\* updateItem() once for the one item of its identity, and then not added,
\* or is among the added items once.
C24_Step ==
    component = "ItemListUpdater" =>
        /\ Len(items') = Len(items) - TotalLength(Removed) + AddedCount
        /\ TotalLength(Removed) = Cardinality(Absent(items, newItems))
        /\ \A k \in 1..Len(items) :
              IF k \in Absent(items, newItems)
              THEN /\ Times(Replay(Ids(items), Removed), items[k].id) = 0
                   /\ Times(Ids(items'), items[k].id) = 0
              ELSE /\ Times(Replay(Ids(items), Removed), items[k].id) = 1
                   /\ Times(Ids(items'), items[k].id) = 1
        /\ \A j \in 1..Len(newItems) :
              IF newItems[j].id \in SeqToSet(Ids(items))
              THEN /\ Times(updated', newItems[j].id) = 1
                   /\ Times(SubSeq(Ids(items'), Len(items') - AddedCount + 1, Len(items')),
                            newItems[j].id) = 0
              ELSE /\ Times(updated', newItems[j].id) = 0
                   /\ Times(SubSeq(Ids(items'), Len(items') - AddedCount + 1, Len(items')),
                            newItems[j].id) = 1
                   /\ Times(Ids(items'), newItems[j].id) = 1

C24_Partition == [][C24_Step]_vars

\* [A,B] has been reconciled against [B,C]: A was removed, B stays, C was
\* added.
C24_Witness ==
    /\ component = "ItemListUpdater"
    /\ Ids(items) = <<2, 3>>
    /\ updated = <<2>>
    /\ RangesOf(events, "onRemovedItems") = <<<<0, 1>>>>
    /\ SelectSeq(events, LAMBDA e : e.ev = "onAddedItems") = <<Ev("onAddedItems", 1, 1)>>

-----------------------------------------------------------------------------
\* Each range, when its turn comes, is a range of the collection as the
\* earlier ranges have left it
RECURSIVE RangesFit(_, _)
RangesFit(seq, ranges) ==
    \/ ranges = <<>>
    \/ /\ 0 <= ranges[1][1] /\ ranges[1][1] < ranges[1][2] /\ ranges[1][2] <= Len(seq)
       /\ RangesFit(EraseRange(seq, ranges[1][1], ranges[1][2]), Tail(ranges))

\* What the ranges erase, one after the other
RECURSIVE Erased(_, _)
Erased(seq, ranges) ==
    IF ranges = <<>> THEN {}
    ELSE SeqToSet(SubSeq(seq, ranges[1][1] + 1, ranges[1][2]))
            \cup Erased(EraseRange(seq, ranges[1][1], ranges[1][2]), Tail(ranges))

\* C25: each removed range update() reports is, when it is applied, a
\* non-empty range of the collection as it then is; the ranges erase the
\* items absent from the incoming collection and no other; applied in their
\* order to the collection as it was they leave the items that stay, in
\* their order; and update() reads no item outside the collection.
C25_Step ==
    component = "ItemListUpdater" =>
        /\ RangesFit(Ids(items), Removed)
        /\ Erased(Ids(items), Removed) = {items[k].id : k \in Absent(items, newItems)}
        /\ Replay(Ids(items), Removed)
              = SelectSeq(Ids(items), LAMBDA id : id \in SeqToSet(Ids(newItems)))
        /\ RangesOf(events', "#outOfRange") = <<>>

C25_RemovedRangesFit == [][C25_Step]_vars

\* [A,B,C,D] has been reconciled against [B,D]: the second range is (1,2),
\* in the indices the first erasure has left.
C25_Witness ==
    /\ component = "ItemListUpdater"
    /\ Ids(items) = <<2, 4>>
    /\ RangesOf(events, "onRemovedItems") = <<<<0, 1>>, <<1, 2>>>>

-----------------------------------------------------------------------------
\* The callbacks of the step of the name, as positions in the call order
EventPositions(name) == {k \in 1..Len(events') : events'[k].ev = name}

\* C26: after update() the collection is the items that stay, in their
\* order and each the object it was, followed by the incoming items of no
\* existing identity, in their incoming order.  When there is at least one
\* of these, onAboutToAddItems(count) and onAddedItems(count) are each
\* called once with their number, after every removal and change callback;
\* when there is none, neither is called.
C26_Step ==
    component = "ItemListUpdater" =>
        With(Unmatched(items, newItems), LAMBDA unmatched :
        With(SelectSeq(items, LAMBDA t : t.id \in SeqToSet(Ids(newItems))), LAMBDA staying :
            /\ Len(items') = Len(staying) + Len(unmatched)
            /\ \A k \in 1..Len(staying) :
                  items'[k] = TorrentUpdate(staying[k], Incoming(newItems, staying[k].id))
            /\ \A k \in 1..Len(unmatched) :
                  items'[Len(staying) + k] = NewTorrentObject(unmatched[k])
            /\ IF unmatched = <<>>
               THEN EventPositions("onAboutToAddItems") = {}
                    /\ EventPositions("onAddedItems") = {}
               ELSE /\ EventPositions("onAboutToAddItems") = {Len(events') - 1}
                    /\ EventPositions("onAddedItems") = {Len(events')}
                    /\ events'[Len(events') - 1].first = Len(unmatched)
                    /\ events'[Len(events')].first = Len(unmatched)))

C26_SurvivorsThenAdded == [][C26_Step]_vars

\* [A,B] has been reconciled against [C,A*,D]: A is reported changed, B is
\* erased, and C and D are added in that order.
C26_Witness ==
    /\ component = "ItemListUpdater"
    /\ Ids(items) = <<1, 3, 4>>
    /\ Len(events) = 5
    /\ events[1] = Ev("onChangedItems", 0, 1)
    /\ events[3] = Ev("onRemovedItems", 1, 2)
    /\ events[4] = Ev("onAboutToAddItems", 2, 2)
    /\ events[5] = Ev("onAddedItems", 2, 2)

-----------------------------------------------------------------------------
\* The step ends an update while the Rpc is Connected and leaves it so
CycleCompleted ==
    /\ mStatus.connectionState = "Connected" /\ mUpdating
    /\ mStatus'.connectionState = "Connected" /\ ~mUpdating'

\* C27: when an update ends while the Rpc is Connected the update timer is
\* running afterwards exactly if updates are not disabled; the update timer
\* never runs while updates are disabled; and after setUpdateDisabled(false)
\* has enabled the updates of a Connected Rpc an update is in progress.
C27_Step ==
    component = "Rpc" =>
        /\ CycleCompleted => (mUpdateTimer' <=> ~mUpdateDisabled')
        /\ mUpdateDisabled' => ~mUpdateTimer'
        /\ /\ CallOf("setUpdateDisabled") /\ mStatus.connectionState = "Connected"
           /\ mUpdateDisabled /\ ~mUpdateDisabled'
           => mUpdating' /\ mStatus'.connectionState = "Connected"

C27_TimerFollowsUpdateDisabled == [][C27_Step]_vars

\* Updates have just been enabled again on a Connected Rpc: an update is in
\* progress.
C27_Witness ==
    /\ component = "Rpc"
    /\ mStatus.connectionState = "Connected"
    /\ \E k \in 1..Len(signals) : signals[k] = <<"updateDisabledChanged">>
    /\ ~mUpdateDisabled /\ mUpdating /\ ~mUpdateTimer

\* C27 as it is stated: setUpdateDisabled(false) on a Connected Rpc leaves an
\* update in progress, whether or not updates were disabled.
C27_AsStatedStep ==
    component = "Rpc" =>
        /\ CycleCompleted => (mUpdateTimer' <=> ~mUpdateDisabled')
        /\ mUpdateDisabled' => ~mUpdateTimer'
        /\ mStatus.connectionState = "Connected" =>
              \A alloc \in Allocations(DOMAIN mActiveNetworkRequests) :
                  SetUpdateDisabled(Cur(alloc), FALSE).mUpdating

C27_EnablingAlwaysStartsUpdate == [][C27_AsStatedStep]_vars

-----------------------------------------------------------------------------
\* The attempts the step sends: those the replies in flight carry more often
\* than before
Sent ==
    {Pending'[a] : a \in {b \in DOMAIN Pending' :
                              Copies(Pending', Pending'[b]) > Copies(Pending, Pending'[b])}}

\* The attempt that follows the given one of a request
NextAttempt(request, attempt) ==
    /\ attempt.method = request.method /\ attempt.ids = request.ids
    /\ attempt.scheduled = request.scheduled
    /\ attempt.failed = request.failed + 1

\* C28: every attempt that is sent (a first post, a retry, a resubmission
\* after a new session id) carries the session id as it is when it is sent;
\* a retry of a request whose last attempt carried a session id that has
\* since been replaced carries the new one, not the old.
C28_Step ==
    component \in {"Rpc", "RequestRouter"} =>
        /\ \A attempt \in Sent : attempt.sessionId = mSessionId'
        /\ \A n \in Notes(signals', "#resubmit") :
              \E attempt \in Sent : NextAttempt(n[2], attempt) /\ attempt.sessionId = n[3]
        /\ \A n \in Notes(signals', "#retry") :
              /\ \E attempt \in Sent : NextAttempt(n[2], attempt)
              /\ \A attempt \in Sent :
                    NextAttempt(n[2], attempt) /\ n[2].sessionId # mSessionId
                        => attempt.sessionId # n[2].sessionId

C28_AttemptsCarryCurrentSessionId == [][C28_Step]_vars

\* A request sent with one session id has been retried after another request
\* brought a new one: the retry in flight carries the new session id.
C28_Witness ==
    \E n \in Notes(signals, "#retry") :
        /\ n[2].sessionId \notin {"", mSessionId}
        /\ \E a \in DOMAIN Pending :
              NextAttempt(n[2], Pending[a]) /\ Pending[a].sessionId = mSessionId

-----------------------------------------------------------------------------
\* The failed attempts of the step that are retried or given up under the
\* retry count
Counted(emitted) ==
    {n \in Notes(emitted, "#retry") \cup Notes(emitted, "#failed") :
        n[3] # "AuthenticationRequiredError"}

\* C29: timeouts and other transport errors draw on one retry count: a failed
\* attempt of either kind is retried while the count of its reply is below
\* the number of retries allowed and given up when it is not.  A request that
\* is given up, whatever the kinds of its earlier failures, is given up with
\* the error of its last attempt, TimedOut when that attempt timed out or
\* was cancelled by the transport and ConnectionError otherwise, and with
\* the error string of that attempt as the message.
C29_Step ==
    component \in {"Rpc", "RequestRouter"} =>
        \A n \in Counted(signals') :
            /\ \E a \in DOMAIN Pending :
                  /\ Pending[a] = n[2]
                  /\ n[1] = "#retry" <=> RetryCount(mRetryingNetworkRequests, a) < RetryBudget
            /\ n[1] = "#retry" => n[5] < RetryBudget
            /\ n[1] = "#failed" =>
                  IF component = "Rpc"
                  THEN mStatus' = Status("Disconnected", TerminalError(n[3]), n[3])
                  ELSE Notes(signals', "requestFailed")
                          = {<<"requestFailed", TerminalError(n[3]), n[3]>>}

C29_TerminalErrorOfLastAttempt == [][C29_Step]_vars

\* A request whose retries all followed timeouts has been given up after a
\* last attempt that ended in another error: the error is ConnectionError.
C29_Witness ==
    \E n \in Notes(signals, "#failed") :
        /\ n[2].failed = maxRetryAttempts /\ n[2].timedOut = maxRetryAttempts
        /\ TerminalError(n[3]) = "ConnectionError"
        /\ n[3] # "AuthenticationRequiredError"
        /\ component = "Rpc"
        /\ mStatus = Status("Disconnected", "ConnectionError", n[3])

-----------------------------------------------------------------------------
\* C30: the update timer runs only while the Rpc is Connected and no update
\* is in progress; when it expires an update starts: mUpdating becomes true
\* and the settings, the torrents and the statistics are requested.
C30_Step ==
    component = "Rpc" =>
        /\ mUpdateTimer => mStatus.connectionState = "Connected" /\ ~mUpdating
        /\ mUpdateTimer' => mStatus'.connectionState = "Connected" /\ ~mUpdating'
        /\ CallOf("updateTimer") =>
              /\ mUpdateTimer /\ ~mUpdating /\ mUpdating' /\ ~mUpdateTimer'
              /\ Issued("session-get") /\ Issued("torrent-get") /\ Issued("session-stats")

C30_TimerOnlyWhenIdle == [][C30_Step]_vars

\* The update timer has expired on a Connected Rpc: an update is in
\* progress, its three requests in flight.
C30_Witness ==
    /\ component = "Rpc"
    /\ budget["version"] = 1 /\ budget["updateTimer"] = 0
    /\ mStatus.connectionState = "Connected" /\ mUpdating /\ ~mUpdateTimer
    /\ Fetches(mActiveNetworkRequests, "session-get") = 1
    /\ Fetches(mActiveNetworkRequests, "torrent-get") = 1
    /\ Fetches(mActiveNetworkRequests, "session-stats") = 1

-----------------------------------------------------------------------------
\* C31: every key of mRetryingNetworkRequests is a reply in flight; a reply
\* that has finished, or that was cancelled with all the others, has no entry
\* left.
C31_RetryCountsOfPendingRepliesOnly ==
    component \in {"Rpc", "RequestRouter"} =>
        DOMAIN mRetryingNetworkRequests \subseteq DOMAIN Pending

-----------------------------------------------------------------------------
\* C32: while the Rpc is Disconnected it has no torrents.
C32_DisconnectedHasNoTorrents ==
    component = "Rpc" /\ mStatus.connectionState = "Disconnected" => mTorrents = <<>>

-----------------------------------------------------------------------------
\* An update is in progress or the Rpc is Connecting
CycleUnfinished ==
    /\ component = "Rpc"
    /\ mStatus.connectionState # "Disconnected"
    /\ mUpdating \/ mStatus.connectionState = "Connecting"

\* No update is in progress and the Rpc is Disconnected, or Connected with
\* the update timer running unless updates are disabled
CycleEnded ==
    \/ mStatus.connectionState = "Disconnected"
    \/ /\ mStatus.connectionState = "Connected" /\ ~mUpdating
       /\ ~mUpdateDisabled => mUpdateTimer

\* C33: when every reply is delivered and every parse task reports, an
\* update that is in progress ends, whatever the daemon answers: the Rpc
\* becomes Disconnected, or Connected with mUpdating false and the update
\* timer running unless updates are disabled.  The Rpc does not stay
\* Connecting or updating for ever.
C33_PollProgress == CycleUnfinished ~> CycleEnded

-----------------------------------------------------------------------------
\* An update of the Connected Rpc is in progress, every fetch of it answered
\* with success so far, and mTorrentsUpdated is still false
TorrentsAwaited ==
    /\ component = "Rpc"
    /\ mStatus.connectionState = "Connected" /\ mUpdating /\ ~cycleFailed
    /\ ~mTorrentsUpdated

\* C34: files or peers enabled on a torrent during an update do not block
\* it, whatever the order in which the scheduled and the other responses for
\* files and peers arrive.  For mTorrentsUpdated to become true and the
\* update to end, an update that still waits for its torrents must have a
\* reply in flight or a reply being parsed: once nothing is outstanding no
\* callback runs any more, updateData() does nothing while mUpdating is true
\* and the update timer is stopped.
C34_EnablingNeverBlocks ==
    TorrentsAwaited => mActiveNetworkRequests # EmptyMap \/ parseFutures # EmptyBag

-----------------------------------------------------------------------------
\* C35: a new session id neither adds to the retry count of the request that
\* is resubmitted nor clears it: the reply of the resubmission has the count
\* the finished reply had, so that a request retried k times before is given
\* up after RetryBudget - k + 1 more failures.
C35_Step ==
    component \in {"Rpc", "RequestRouter"} =>
        \A n \in Notes(signals', "#resubmit") : n[5] = n[4]

C35_RotationKeepsRetryCount == [][C35_Step]_vars


-----------------------------------------------------------------------------
\* The step takes a session id from a conflict response to a request that was
\* sent under another session id than the current one (a delayed response),
\* and that session id differs from the current one
DelayedRotation(n) == n[2].sessionId # mSessionId /\ n[3] # mSessionId

\* The session ids under which the replies in flight were sent: each was the
\* session id of the component when its request was posted
SentUnder(pending) == {pending[a].sessionId : a \in DOMAIN pending} \ {""}

\* C36: the session id never goes back to an older one: a conflict response
\* to a request sent under an earlier session id never replaces the current
\* session id by one that the component held before (one under which a reply
\* still in flight was sent).
C36_Step ==
    component \in {"Rpc", "RequestRouter"} =>
        \A n \in Notes(signals', "#resubmit") :
            DelayedRotation(n) => n[3] \notin SentUnder(Pending)

C36_SessionIdNeverGoesBack == [][C36_Step]_vars


-----------------------------------------------------------------------------
\* C37: while the Rpc is Disconnected no reply is in flight: no operation
\* (getTorrentsFiles, getTorrentsPeers, Torrent::setFilesEnabled and
\* Torrent::setPeersEnabled included) posts a request while Disconnected.
C37_DisconnectedHasNoRequests ==
    component = "Rpc" /\ mStatus.connectionState = "Disconnected" =>
        mActiveNetworkRequests = EmptyMap


-----------------------------------------------------------------------------
\* The torrent list fetches (getTorrents) that are outstanding: in flight or
\* being parsed
TorrentListFetches ==
    Cardinality({a \in DOMAIN mActiveNetworkRequests :
                    mActiveNetworkRequests[a].method = "torrent-get"})
    + BagCardinality([q \in {f \in BagToSet(parseFutures) :
                                f.method = "torrent-get" /\ ~f.stale} |-> parseFutures[q]])

-----------------------------------------------------------------------------
\* The collection as update() leaves it after every removal and before the
\* additions
AfterRemovals == SubSeq(items', 1, Len(items') - AddedCount)

\* The identities of the items updateItem() returned true for
ChangedIds == {items[k].id : k \in ChangedPositions(items, newItems)}

\* The changed ranges that cover the index
Covering(index) == {i \in 1..Len(Changed) : Changed[i][1] <= index /\ index < Changed[i][2]}

\* C39: every index of a reported changed range refers, in the collection as
\* it is after all the removals and before the additions, to an item
\* updateItem() returned true for; every item that stays and for which
\* updateItem() returned true is covered by exactly one changed range; and a
\* removal that follows the report of a changed range erases only indices
\* behind that range, so that it does not shift the items of the range.
C39_Step ==
    component = "ItemListUpdater" =>
        /\ \A i \in 1..Len(Changed) :
              \A index \in Changed[i][1]..(Changed[i][2] - 1) :
                  /\ index < Len(AfterRemovals)
                  /\ AfterRemovals[index + 1].id \in ChangedIds
        /\ \A index \in 0..(Len(AfterRemovals) - 1) :
              AfterRemovals[index + 1].id \in ChangedIds =>
                  Cardinality(Covering(index)) = 1
        /\ \A p, q \in 1..Len(events') :
              /\ p < q
              /\ events'[p].ev = "onChangedItems"
              /\ events'[q].ev = "onRemovedItems"
              => events'[p].last <= events'[q].first

C39_ChangedRangesReferToChangedItems == [][C39_Step]_vars

\* [A,B,C,D] has been reconciled against [A,C,D] with A and D changed: A's
\* range was reported before B was erased, D's after, in the index the
\* erasure left it at.
C39_Witness ==
    /\ component = "ItemListUpdater"
    /\ Ids(items) = <<1, 3, 4>>
    /\ Len(events) = 4
    /\ events[1] = Ev("onChangedItems", 0, 1)
    /\ events[3] = Ev("onRemovedItems", 1, 2)
    /\ events[4] = Ev("onChangedItems", 2, 3)


-----------------------------------------------------------------------------
\* The errors of a Disconnected status that no retry precedes
UnretriedErrors == {"AuthenticationError", "ParseError", "ServerIsTooNew", "ServerIsTooOld"}

\* C40: the auto-reconnect timer is started only when a request is given up
\* after its last retry, with TimedOut or ConnectionError; a step that ends
\* in AuthenticationError, ParseError, ServerIsTooNew or ServerIsTooOld does
\* not start it, and from Disconnected with one of these errors the Rpc
\* leaves Disconnected only by a call of connect(), auto-reconnect enabled or
\* not.
C40_Step ==
    component = "Rpc" =>
        /\ ~mAutoReconnectTimer /\ mAutoReconnectTimer' =>
              GivenUp /\ mStatus'.error \in {"TimedOut", "ConnectionError"}
        /\ mStatus.connectionState = "Disconnected" /\ mStatus.error \in UnretriedErrors
              /\ mStatus'.connectionState # "Disconnected" => CallOf("connect")

C40_AutoReconnectOnlyAfterRetries == [][C40_Step]_vars

====
